---- MODULE Spec2Model ----
(***************************************************************************)
(* Model of the agent-facing dispatch layer of whatsapp-go-mcp:            *)
(* OptimizedHandlerV2 (the six tool handlers, the idempotency cache and    *)
(* the response envelope) and serviceChat.ListChats (the chat merge).      *)
(*                                                                         *)
(* Go strings are sequences of one-character strings, so that prefix,      *)
(* substring, lower-casing and digit filtering are computed as Go does.    *)
(* A fixed text of the program ("Unknown action") is a one-element         *)
(* sequence holding the text.                                              *)
(***************************************************************************)
EXTENDS Integers, Sequences, FiniteSets, TLC

(***************************************************************************)
(* Bounds of the model.                                                    *)
(***************************************************************************)
MaxRecipients == 2
MaxInvocations == 2

(***************************************************************************)
(* Strings.                                                                *)
(***************************************************************************)
NilStr == <<"<nil>">>

Txt(s) == <<s>>

HasPrefix(s, p) == Len(s) >= Len(p) /\ SubSeq(s, 1, Len(p)) = p

TrimPrefix(s, p) == IF HasPrefix(s, p) THEN SubSeq(s, Len(p) + 1, Len(s)) ELSE s

Contains(s, sub) ==
    \E k \in 0..(Len(s) - Len(sub)) : SubSeq(s, k + 1, k + Len(sub)) = sub

LowerChar(c) ==
    CASE c = "A" -> "a"
      [] c = "B" -> "b"
      [] c = "F" -> "f"
      [] OTHER -> c

ToLower(s) == [k \in 1..Len(s) |-> LowerChar(s[k])]

Digits == {"0", "1", "2", "3", "4", "5", "6", "7", "8", "9"}

IsDigit(c) == c \in Digits

NamePrefix == <<"n", "a", "m", "e", ":">>

At == <<"@">>

Plus == <<"+">>

\* a normalization that prefixes the input without removing its non-digits
normalizePhoneKeepingAll(phone) == Plus \o phone

normalizePhone(phone) ==
    LET cleaned == SelectSeq(phone, IsDigit)
    IN  IF Len(cleaned) > 10 /\ ~HasPrefix(phone, Plus)
          THEN Plus \o cleaned
        ELSE IF Len(cleaned) = 10 /\ ~HasPrefix(cleaned, <<"1">>)
          THEN <<"+", "1">> \o cleaned
        ELSE IF HasPrefix(phone, Plus)
          THEN phone
        ELSE Plus \o cleaned

(***************************************************************************)
(* Dynamically typed argument values (interface{}): one record shape per   *)
(* Go type, so that a type assertion is a test on the record's field.      *)
(***************************************************************************)
Absent == [absent |-> TRUE]

S(s) == [str |-> s]

B(b) == [bool |-> b]

N(n) == [num |-> n]

A(seq) == [arr |-> seq]

O(m) == [obj |-> m]

IsStr(v) == DOMAIN v = {"str"}

IsBool(v) == DOMAIN v = {"bool"}

IsNum(v) == DOMAIN v = {"num"}

IsArr(v) == DOMAIN v = {"arr"}

IsObj(v) == DOMAIN v = {"obj"}

\* the argument mapping of an invocation: the parameters the tool declares,
\* those not supplied being Absent
WithArgs(keys, given) == [k \in keys |-> IF k \in DOMAIN given THEN given[k] ELSE Absent]

(***************************************************************************)
(* Collaborators.  Every call returns one of the outcomes below, chosen    *)
(* by the environment at the call.                                         *)
(***************************************************************************)
ErrMsgs == {<<"e", "1">>}

GroupA == [JID |-> <<"7", "@", "g", ".", "u", "s">>, Name |-> <<"F", "a", "b">>]

GroupB == [JID |-> <<"8", "@", "g", ".", "u", "s">>, Name |-> <<"f", "a">>]

Directories == {<<>>, <<GroupA, GroupB>>}

GroupsOutcomes ==
    {[err |-> e, Data |-> <<>>] : e \in ErrMsgs}
        \cup {[err |-> NilStr, Data |-> d] : d \in Directories}

CheckOutcomes ==
    {[err |-> e, IsOnWhatsApp |-> FALSE] : e \in ErrMsgs}
        \cup {[err |-> NilStr, IsOnWhatsApp |-> b] : b \in BOOLEAN}

ErrOutcomes == {NilStr} \cup ErrMsgs

Call(svc, arg) == [svc |-> svc, arg |-> arg]

SendServices == {"SendText", "SendImage", "SendLink", "SendLocation", "SendContact"}

(***************************************************************************)
(* State.                                                                  *)
(***************************************************************************)
VARIABLES
    idempotencyCache,   \* OptimizedHandlerV2.idempotencyCache: key -> SendResult
    rateLimitRemaining, \* OptimizedHandlerV2.rateLimitRemaining
    rateLimitReset,     \* OptimizedHandlerV2.rateLimitReset
    pc,                 \* position of the current invocation
    req,                \* the invocation: tool and argument mapping
    inv,                \* number of invocations received so far
    idx,                \* handleSend: position in the recipients loop
    results,            \* handleSend: results
    sent,               \* handleSend: sent
    failed,             \* handleSend: failed
    check,              \* handleSend: check, err of the latest IsOnWhatsApp
    listed,             \* handleSend: groups, err of the latest MyListGroups
    sendErr,            \* handleSend: err of the latest send call
    calls,              \* collaborator calls made by the current invocation
    resp,               \* what the handler returned (envelope and text suffix)
    repeat,             \* this invocation re-issues the send completed just before it
    prevStatus,         \* envelope status of that previous invocation
    chatStore,          \* chatStorageRepo: the persisted chats
    groupDir,           \* whatsapp client: the joined groups
    contactDir,         \* whatsapp client: the contact store
    listRequest,        \* the last ListChatsRequest
    listFaults,         \* which sources failed during the last ListChats
    listResponse,       \* what the last ListChats returned
    nextRequest,        \* the ListChatsRequest of the call that follows it
    nextResponse,       \* what that call returned
    rawPhone,           \* normalizePhone: the argument
    canonical,          \* normalizePhone: the value returned
    renormalized,       \* normalizePhone applied to the value it returned
    workers             \* concurrent handleSend calls: position and locals of each

vars ==
    <<idempotencyCache, rateLimitRemaining, rateLimitReset, pc, req, inv, idx,
      results, sent, failed, check, listed, sendErr, calls, resp, repeat, prevStatus,
      chatStore, groupDir,
      contactDir, listRequest, listFaults, listResponse, nextRequest, nextResponse,
      rawPhone, canonical,
      renormalized,
      workers>>

dispatchVars ==
    <<idempotencyCache, rateLimitRemaining, rateLimitReset, pc, req, inv, idx,
      results, sent, failed, check, listed, sendErr, calls, resp, repeat,
      prevStatus>>

chatSources == <<chatStore, groupDir, contactDir>>

followUp == <<nextRequest, nextResponse>>

chatVars ==
    <<chatStore, groupDir, contactDir, listRequest, listFaults, listResponse, followUp>>

phoneVars == <<rawPhone, canonical, renormalized>>

handlerState == <<idempotencyCache, rateLimitRemaining, rateLimitReset>>

sendLocals == <<idx, results, sent, failed, check, listed, sendErr>>

history == <<repeat, prevStatus>>

RateLimitStart == 500

ResetTime == 3600

NoReq == [tool |-> "none", args |-> Absent]

NoListRequest == [Search |-> <<>>, Limit |-> 0, Offset |-> 0]

NoFaults == [store |-> FALSE, groups |-> FALSE, contacts |-> FALSE]

NoCheck == [err |-> NilStr, IsOnWhatsApp |-> TRUE]

NoGroups == [err |-> NilStr, Data |-> <<>>]

InitDispatch ==
    /\ idempotencyCache = <<>>
    /\ rateLimitRemaining = RateLimitStart
    /\ rateLimitReset = ResetTime
    /\ pc = "idle"
    /\ req = NoReq
    /\ inv = 0
    /\ idx = 0
    /\ results = <<>>
    /\ sent = 0
    /\ failed = 0
    /\ check = NoCheck
    /\ listed = NoGroups
    /\ sendErr = NilStr
    /\ calls = <<>>
    /\ resp = Absent
    /\ repeat = FALSE
    /\ prevStatus = "none"

InitNoListing ==
    /\ listRequest = NoListRequest
    /\ listFaults = NoFaults
    /\ listResponse = [kind |-> "none"]
    /\ nextRequest = NoListRequest
    /\ nextResponse = [kind |-> "none"]

MaxGoroutines == 2

\* a handleSend call that the HTTP server has not started yet
IdleWorker == [at |-> "idle", key |-> <<>>, left |-> 0, cached |-> FALSE]

InitNoWorkers == workers = [w \in 1..MaxGoroutines |-> IdleWorker]

InitNoPhone ==
    /\ rawPhone = <<>>
    /\ canonical = Absent
    /\ renormalized = Absent

Init ==
    /\ InitDispatch
    /\ chatStore = <<>>
    /\ groupDir = <<>>
    /\ contactDir = <<>>
    /\ InitNoListing
    /\ InitNoPhone
    /\ InitNoWorkers

(***************************************************************************)
(* Response envelope.                                                      *)
(***************************************************************************)
\* a response that reports the counter raised by the number of invocations
createResponseCountingUp(tool, action, status, data) ==
    [Tool |-> tool, Action |-> action, Status |-> status, Data |-> data,
     Error |-> Absent,
     RateLimit |-> [Remaining |-> rateLimitRemaining + inv, Reset |-> rateLimitReset]]

createResponse(tool, action, status, data) ==
    [Tool |-> tool, Action |-> action, Status |-> status, Data |-> data,
     Error |-> Absent,
     RateLimit |-> IF rateLimitRemaining > 0
                     THEN [Remaining |-> rateLimitRemaining, Reset |-> rateLimitReset]
                     ELSE Absent]

createError(tool, action, code, message, detail) ==
    [Tool |-> tool, Action |-> action, Status |-> "error", Data |-> Absent,
     Error |-> [Code |-> code, Message |-> message, Detail |-> detail],
     RateLimit |-> Absent]

\* mcp.NewToolResultText(string(respJSON) + suffix), nil
ToolResult(envelope, suffix) == [envelope |-> envelope, suffix |-> suffix]

(***************************************************************************)
(* TOOL 2: handleSend.                                                     *)
(***************************************************************************)
\* recipientsRaw := args["recipients"].([]interface{}); recipients[i] = r.(string);
\* kind := args["kind"].(string): each single-value assertion panics on failure
SendAssertionsHold(a) ==
    /\ IsArr(a.recipients)
    /\ \A k \in 1..Len(a.recipients.arr) : IsStr(a.recipients.arr[k])
    /\ IsStr(a.kind)

Recipients(a) == [k \in 1..Len(a.recipients.arr) |-> a.recipients.arr[k].str]

\* idempKey, ok := args["idempotency_key"].(string); ok && idempKey != ""
HasIdempKey(a) == IsStr(a.idempotency_key) /\ a.idempotency_key.str # <<>>

\* the lookup in the cache left out
CacheHitSkipped(a) == FALSE

CacheHit(a) == HasIdempKey(a) /\ a.idempotency_key.str \in DOMAIN idempotencyCache

\* checkAndFormat := true; if cf, ok := args["check_and_format"].(bool); ok { ... }
CheckAndFormat(a) == IF IsBool(a.check_and_format) THEN a.check_and_format.bool ELSE TRUE

\* the last matching group of the enumeration instead of the first
LastMatch(groups, groupName) ==
    LET hits == {k \in 1..Len(groups) :
                    Contains(ToLower(groups[k].Name), ToLower(groupName))}
    IN  IF hits = {} THEN 0 ELSE CHOOSE k \in hits : \A m \in hits : k >= m

\* the first group, in enumeration order, whose lower-cased name contains the
\* lower-cased text; 0 when there is none
FirstMatch(groups, groupName) ==
    LET hits == {k \in 1..Len(groups) :
                    Contains(ToLower(groups[k].Name), ToLower(groupName))}
    IN  IF hits = {} THEN 0 ELSE CHOOSE k \in hits : \A m \in hits : k <= m

KindOf(a) == a.kind.str

SendServiceOf(kind) ==
    CASE kind = Txt("text") -> "SendText"
      [] kind = Txt("image") -> "SendImage"
      [] kind = Txt("link") -> "SendLink"
      [] kind = Txt("location") -> "SendLocation"
      [] kind = Txt("contact") -> "SendContact"
      [] OTHER -> "none"

\* the single-value assertions inside the switch on kind
SendSwitchPanics(a) ==
    LET kind == KindOf(a)
    IN  \/ kind = Txt("image") /\ ~IsStr(a.media_url)
        \/ kind = Txt("link") /\ ~IsStr(a.link_url)
        \/ kind = Txt("location") /\ ~IsObj(a.location)
        \/ /\ kind = Txt("contact")
           /\ \/ ~IsObj(a.contact)
              \/ ~("name" \in DOMAIN a.contact.obj /\ IsStr(a.contact.obj.name))
              \/ ~("phone" \in DOMAIN a.contact.obj /\ IsStr(a.contact.obj.phone))

NotOnWhatsApp(chk) == chk.err # NilStr \/ ~chk.IsOnWhatsApp

\* if strings.HasPrefix(recipient, "name:") { groups, err := MyListGroups(ctx) ... }
IsNameRef(recipient) == HasPrefix(recipient, NamePrefix)

GroupHit(recipient, gres) ==
    IF IsNameRef(recipient) /\ gres.err = NilStr
      THEN FirstMatch(gres.Data, TrimPrefix(recipient, NamePrefix))
      ELSE 0

ResolvedTarget(recipient, gres) ==
    IF GroupHit(recipient, gres) > 0
      THEN gres.Data[GroupHit(recipient, gres)].JID
      ELSE recipient

\* the flag not consulted: every target without '@' is checked
NeedsCheckWhateverTheFlag(a, target) == ~Contains(target, At)

\* if checkAndFormat && !strings.Contains(recipient, "@")
NeedsCheck(a, target) == CheckAndFormat(a) /\ ~Contains(target, At)

\* only an error of the check rejects the recipient, a negative answer does not
RejectedOnErrorOnly(a, target, chk) == NeedsCheck(a, target) /\ chk.err # NilStr

Rejected(a, target, chk) == NeedsCheck(a, target) /\ NotOnWhatsApp(chk)

\* the send collaborator is called: the recipient passed the check, the kind
\* is a supported one and its parameters passed their assertions
CallsSend(a, target, chk) ==
    /\ ~Rejected(a, target, chk)
    /\ ~SendSwitchPanics(a)
    /\ SendServiceOf(KindOf(a)) # "none"

\* One iteration of the loop over recipients, for the collaborator outcomes
\* gres (MyListGroups), chk (IsOnWhatsApp) and snd (the send call).
ProcessRecipient(a, recipient, gres, chk, snd) ==
    LET hit == GroupHit(recipient, gres)
        target == ResolvedTarget(recipient, gres)
        listCalls == IF IsNameRef(recipient) THEN <<Call("MyListGroups", <<>>)>> ELSE <<>>
        doCheck == NeedsCheck(a, target)
        normalized == IF doCheck THEN normalizePhone(target) ELSE target
        checkCalls == IF doCheck THEN <<Call("IsOnWhatsApp", normalized)>> ELSE <<>>
        rejected == Rejected(a, target, chk)
        svc == SendServiceOf(KindOf(a))
        sendCalls == IF CallsSend(a, target, chk) THEN <<Call(svc, normalized)>> ELSE <<>>
        err == IF svc = "none" THEN Txt("unsupported kind: ") \o KindOf(a) ELSE snd
        base == [to |-> recipient,
                 resolved_to |-> IF hit > 0 THEN gres.Data[hit].JID ELSE NilStr,
                 group_name |-> IF hit > 0 THEN gres.Data[hit].Name ELSE NilStr,
                 normalized |-> IF doCheck THEN normalized ELSE NilStr,
                 status |-> "failed", error |-> NilStr, timestamp |-> "none"]
        result == IF rejected
                    THEN [base EXCEPT !.status = "not_on_whatsapp",
                                      !.error = Txt("Recipient not on WhatsApp")]
                  ELSE IF err # NilStr
                    THEN [base EXCEPT !.status = "failed", !.error = err]
                  ELSE [base EXCEPT !.status = "sent", !.timestamp = "now"]
    IN  [panics |-> ~rejected /\ SendSwitchPanics(a),
         calls |-> listCalls \o checkCalls \o sendCalls,
         result |-> result]

\* the outcomes the environment can give the calls of one iteration; a call
\* that is not made has no outcome to choose
GroupsFor(recipient) == IF IsNameRef(recipient) THEN GroupsOutcomes ELSE {NoGroups}

ChecksFor(a, target) == IF NeedsCheck(a, target) THEN CheckOutcomes ELSE {NoCheck}

SendsFor(a, target, chk) == IF CallsSend(a, target, chk) THEN ErrOutcomes ELSE {NilStr}

\* failed++ forgotten on the not-on-WhatsApp path
TallyMissedRejected(result) ==
    [sent |-> IF result.status = "sent" THEN 1 ELSE 0,
     failed |-> IF result.status = "failed" THEN 1 ELSE 0]

\* failed++ (not on WhatsApp, or the send failed) and sent++
Tally(result) ==
    [sent |-> IF result.status = "sent" THEN 1 ELSE 0,
     failed |-> IF result.status \in {"failed", "not_on_whatsapp"} THEN 1 ELSE 0]

\* the result put in front instead of appended
PrependResult(rs, result) == <<result>> \o rs

\* results = append(results, result)
AppendResult(rs, result) == Append(rs, result)

\* the partial case left out: any failure makes the batch an error
AggregateStatusNoPartial(nsent, nfailed) == IF nfailed > 0 THEN "error" ELSE "success"

\* status := "success"; if failed > 0 && sent > 0 {partial} else if failed > 0 && sent == 0 {error}
AggregateStatus(nsent, nfailed) ==
    IF nfailed > 0 /\ nsent > 0 THEN "partial"
    ELSE IF nfailed > 0 /\ nsent = 0 THEN "error"
    ELSE "success"

SendResponse(requested, nsent, nfailed, rs) ==
    ToolResult(
        createResponse("whatsapp_send", Txt("send"), AggregateStatus(nsent, nfailed),
                       [requested |-> requested, sent |-> nsent, failed |-> nfailed,
                        results |-> rs]),
        "Sent n of requested")

CachedResponse(cached) ==
    ToolResult(
        createResponse("whatsapp_send", Txt("send"), "success",
                       [cached |-> TRUE, results |-> <<cached>>]),
        "(Cached result)")

\* a store that evicts the entry of a key that is stored a second time
StoreSentEvicting(a, cache, messageID) ==
    IF HasIdempKey(a)
      THEN IF a.idempotency_key.str \in DOMAIN cache
             THEN [k \in DOMAIN cache \ {a.idempotency_key.str} |-> cache[k]]
             ELSE [k \in DOMAIN cache \cup {a.idempotency_key.str} |->
                     IF k = a.idempotency_key.str
                       THEN [message_id |-> messageID, status |-> "sent", error |-> NilStr]
                       ELSE cache[k]]
      ELSE cache

\* h.idempotencyCache[idempKey] = &SendResult{MessageID: uuid.NewString(), Status: "sent", ...}
StoreSent(a, cache, messageID) ==
    IF HasIdempKey(a)
      THEN [k \in DOMAIN cache \cup {a.idempotency_key.str} |->
              IF k = a.idempotency_key.str
                THEN [message_id |-> messageID, status |-> "sent", error |-> NilStr]
                ELSE cache[k]]
      ELSE cache

\* handleSend up to the loop: the assertions on the arguments and the cache check
HandleSendStart ==
    /\ pc = "received"
    /\ req.tool = "whatsapp_send"
    /\ LET a == req.args
       IN  IF ~SendAssertionsHold(a)
             THEN /\ pc' = "panicked"
                  /\ UNCHANGED <<resp, sendLocals>>
           ELSE IF CacheHit(a)
             THEN /\ pc' = "done"
                  /\ resp' = CachedResponse(idempotencyCache[a.idempotency_key.str])
                  /\ UNCHANGED sendLocals
           ELSE IF Len(a.recipients.arr) = 0
             THEN /\ pc' = "done"
                  /\ resp' = SendResponse(0, 0, 0, <<>>)
                  /\ UNCHANGED sendLocals
           ELSE /\ pc' = "loop"
                /\ idx' = 1
                /\ results' = <<>>
                /\ sent' = 0
                /\ failed' = 0
                /\ check' = NoCheck
                /\ listed' = NoGroups
                /\ sendErr' = NilStr
                /\ UNCHANGED resp
    /\ UNCHANGED <<handlerState, req, inv, calls, history, chatVars, phoneVars, workers>>

\* one iteration of `for _, recipient := range recipients`; after the last one
\* the aggregate status is computed and the envelope returned
HandleSendStep ==
    /\ pc = "loop"
    /\ \E gres \in GroupsFor(Recipients(req.args)[idx]) :
       \E chk \in ChecksFor(req.args, ResolvedTarget(Recipients(req.args)[idx], gres)) :
       \E snd \in SendsFor(req.args, ResolvedTarget(Recipients(req.args)[idx], gres), chk) :
        LET a == req.args
            n == Len(a.recipients.arr)
            p == ProcessRecipient(a, Recipients(a)[idx], gres, chk, snd)
            ok == p.result.status = "sent"
            nsent == sent + Tally(p.result).sent
            nfailed == failed + Tally(p.result).failed
            rs == AppendResult(results, p.result)
        IN  /\ calls' = calls \o p.calls
            /\ check' = chk
            /\ listed' = gres
            /\ sendErr' = snd
            /\ IF p.panics
                 THEN /\ pc' = "panicked"
                      /\ UNCHANGED <<idempotencyCache, idx, results, sent, failed, resp>>
                 ELSE /\ idempotencyCache' =
                            IF ok THEN StoreSent(a, idempotencyCache, <<inv, idx>>)
                                  ELSE idempotencyCache
                      /\ results' = rs
                      /\ sent' = nsent
                      /\ failed' = nfailed
                      /\ IF idx = n
                           THEN /\ pc' = "done"
                                /\ resp' = SendResponse(n, nsent, nfailed, rs)
                                /\ UNCHANGED idx
                           ELSE /\ pc' = "loop"
                                /\ idx' = idx + 1
                                /\ UNCHANGED resp
    /\ UNCHANGED <<rateLimitRemaining, rateLimitReset, req, inv, history, chatVars, phoneVars,
                   workers>>

(***************************************************************************)
(* The single-shot handlers.  Each is given as the set of ways it can      *)
(* end, one per combination of collaborator outcomes: either it panics on  *)
(* a failed single-value type assertion, or it returns a tool result; in   *)
(* both cases with the collaborator calls it made up to that point.        *)
(***************************************************************************)
Panicked(made) == [panics |-> TRUE, calls |-> made, result |-> Absent]

Returned(made, envelope, suffix) ==
    [panics |-> FALSE, calls |-> made, result |-> ToolResult(envelope, suffix)]

\* default: createError(tool, action, "invalid_action", "Unknown action", action)
InvalidAction(tool, action) ==
    Returned(<<>>, createError(tool, action, "invalid_action", "Unknown action", action), "")

\* err := collaborator(...); if err != nil { createError(...) } createResponse(...)
CallThenRespond(tool, action, call, code, message, data, suffix) ==
    {IF e # NilStr
       THEN Returned(<<call>>, createError(tool, action, code, message, e), "")
       ELSE Returned(<<call>>, createResponse(tool, action, "success", data), suffix)
     : e \in ErrOutcomes}

(***************************************************************************)
(* TOOL 1: handleAuth.                                                     *)
(***************************************************************************)
Device1 == [Device |-> Txt("dev1"), Name |-> Txt("phone")]

DeviceLists == {<<>>, <<Device1>>}

FetchDevicesOutcomes ==
    {[err |-> e, devices |-> <<>>] : e \in ErrMsgs}
        \cup {[err |-> NilStr, devices |-> d] : d \in DeviceLists}

AuthStatus(action) ==
    {LET up == f.err = NilStr /\ Len(f.devices) > 0
     IN  Returned(<<Call("FetchDevices", <<>>)>>,
                  createResponse("whatsapp_auth", action, "success",
                      [status |-> IF up THEN "connected" ELSE "disconnected",
                       logged_in |-> up,
                       device_count |-> IF up THEN Len(f.devices) ELSE 0]),
                  "")
     : f \in FetchDevicesOutcomes}

AuthDevices(action) ==
    {IF f.err # NilStr
       THEN Returned(<<Call("FetchDevices", <<>>)>>,
                     createError("whatsapp_auth", action, "fetch_failed",
                                 "Could not fetch devices", f.err), "")
       ELSE Returned(<<Call("FetchDevices", <<>>)>>,
                     createResponse("whatsapp_auth", action, "success",
                                    [count |-> Len(f.devices), devices |-> f.devices]), "")
     : f \in FetchDevicesOutcomes}

handleAuth(a) ==
    IF ~IsStr(a.action) THEN {Panicked(<<>>)}
    ELSE LET action == a.action.str
             T == "whatsapp_auth"
         IN  CASE action = Txt("login_qr") ->
                    CallThenRespond(T, action, Call("Login", <<>>), "login_failed",
                        "QR login failed",
                        [qr |-> [raw_code |-> Txt("code"),
                                 data_uri |-> IsBool(a.include_qr_data)
                                                 /\ a.include_qr_data.bool]],
                        "Scan in WhatsApp > Settings > Linked Devices")
               [] action = Txt("login_code") ->
                    IF ~IsStr(a.phone_number) THEN {Panicked(<<>>)}
                    ELSE CallThenRespond(T, action,
                             Call("LoginWithCode", normalizePhone(a.phone_number.str)),
                             "login_failed", "Code login failed",
                             [code |-> Txt("code"),
                              phone |-> normalizePhone(a.phone_number.str)],
                             "Enter code in WhatsApp")
               [] action = Txt("logout") ->
                    CallThenRespond(T, action, Call("Logout", <<>>), "logout_failed",
                        "Logout failed", [message |-> "Logged out successfully"],
                        "Logged out")
               [] action = Txt("status") -> AuthStatus(action)
               [] action = Txt("reconnect") ->
                    CallThenRespond(T, action, Call("Reconnect", <<>>),
                        "reconnect_failed", "Reconnection failed",
                        [message |-> "Reconnected successfully"], "Reconnected")
               [] action = Txt("devices") -> AuthDevices(action)
               [] OTHER -> {InvalidAction(T, action)}

(***************************************************************************)
(* TOOL 3: handleMessages.                                                 *)
(***************************************************************************)
Message1 == [ID |-> Txt("m1"), Content |-> Txt("hi")]

MessageLists == {<<>>, <<Message1>>}

GetMessagesOutcomes ==
    {[err |-> e, Data |-> <<>>] : e \in ErrMsgs}
        \cup {[err |-> NilStr, Data |-> d] : d \in MessageLists}

DefaultMessageLimit == 20

SearchLimit == 50

MessagesGet(a, action) ==
    IF ~IsStr(a.chat_id) THEN {Panicked(<<>>)}
    ELSE LET T == "whatsapp_messages"
             chatID == a.chat_id.str
             limit == IF IsNum(a.limit) THEN a.limit.num ELSE DefaultMessageLimit
             autoMarkRead == IF IsBool(a.auto_mark_read) THEN a.auto_mark_read.bool ELSE TRUE
             get == Call("GetChatMessages", [ChatJID |-> chatID, Limit |-> limit])
             Fetched(g, made, marked) ==
                 Returned(made,
                          createResponse(T, action, "success",
                              [chat_id |-> chatID, count |-> Len(g.Data),
                               messages |-> g.Data, marked_as_read |-> marked]),
                          IF marked THEN "Fetched n messages and marked as read"
                                    ELSE "Fetched n messages")
         IN  UNION {
               IF g.err # NilStr
                 THEN {Returned(<<get>>,
                                createError(T, action, "fetch_failed",
                                            "Could not fetch messages", g.err), "")}
               ELSE IF autoMarkRead /\ Len(g.Data) > 0
                 THEN {Fetched(g, <<get, Call("MarkAsRead",
                                        [Phone |-> chatID, MessageID |-> g.Data[1].ID])>>,
                               e = NilStr) : e \in ErrOutcomes}
               ELSE {Fetched(g, <<get>>, FALSE)}
               : g \in GetMessagesOutcomes}

\* a mark_read whose err is nil: the branch after the error check is taken
MessagesMarkReadSucceeding(a, action) ==
    IF ~IsStr(a.chat_id) THEN {Panicked(<<>>)}
    ELSE {Returned(<<>>, createResponse("whatsapp_messages", action, "success",
                             [chat_id |-> a.chat_id.str, marked |-> TRUE]),
                   "Marked as read")}

\* var err error = fmt.Errorf("mark as read not available"); if err != nil {...}
MessagesMarkRead(a, action) ==
    IF ~IsStr(a.chat_id) THEN {Panicked(<<>>)}
    ELSE LET err == Txt("mark as read not available")
         IN  IF err # NilStr
               THEN {Returned(<<>>, createError("whatsapp_messages", action, "mark_failed",
                                                "Could not mark as read", err), "")}
               ELSE {Returned(<<>>, createResponse("whatsapp_messages", action, "success",
                                        [chat_id |-> a.chat_id.str, marked |-> TRUE]),
                              "Marked as read")}

MessagesReact(a, action) ==
    IF ~IsStr(a.message_id) \/ ~IsStr(a.reaction) \/ ~IsStr(a.chat_id)
      THEN {Panicked(<<>>)}
      ELSE CallThenRespond("whatsapp_messages", action,
               Call("ReactMessage", [Phone |-> a.chat_id.str,
                                     MessageID |-> a.message_id.str,
                                     Emoji |-> a.reaction.str]),
               "react_failed", "Could not react",
               [message_id |-> a.message_id.str, reaction |-> a.reaction.str],
               "Reacted")

MessagesDelete(a, action) ==
    IF ~IsStr(a.message_id) \/ ~IsStr(a.chat_id)
      THEN {Panicked(<<>>)}
      ELSE CallThenRespond("whatsapp_messages", action,
               Call("DeleteMessage", [Phone |-> a.chat_id.str,
                                      MessageID |-> a.message_id.str]),
               "delete_failed", "Could not delete",
               [message_id |-> a.message_id.str, deleted |-> TRUE], "Deleted")

MessagesSearch(a, action) ==
    IF ~IsStr(a.search_term) THEN {Panicked(<<>>)}
    ELSE LET T == "whatsapp_messages"
             chatID == IF IsStr(a.chat_id) THEN a.chat_id.str ELSE <<>>
             get == Call("GetChatMessages",
                         [ChatJID |-> chatID, Search |-> a.search_term.str,
                          Limit |-> SearchLimit])
         IN  {IF g.err # NilStr
                THEN Returned(<<get>>, createError(T, action, "search_failed",
                                                   "Search failed", g.err), "")
                ELSE Returned(<<get>>,
                              createResponse(T, action, "success",
                                  [query |-> a.search_term.str, count |-> Len(g.Data),
                                   results |-> g.Data]),
                              "Found n matches")
              : g \in GetMessagesOutcomes}

handleMessages(a) ==
    IF ~IsStr(a.action) THEN {Panicked(<<>>)}
    ELSE LET action == a.action.str
         IN  CASE action = Txt("get") -> MessagesGet(a, action)
               [] action = Txt("mark_read") -> MessagesMarkRead(a, action)
               [] action = Txt("react") -> MessagesReact(a, action)
               [] action = Txt("delete") -> MessagesDelete(a, action)
               [] action = Txt("search") -> MessagesSearch(a, action)
               [] OTHER -> {InvalidAction("whatsapp_messages", action)}

(***************************************************************************)
(* TOOL 4: handleGroups.                                                   *)
(***************************************************************************)
DefaultGroupLimit == 50

Min(x, y) == IF x < y THEN x ELSE y

\* participantsRaw := args["participants"].([]interface{}); normalizePhone(p.(string))
IsStringArray(v) == IsArr(v) /\ \A k \in 1..Len(v.arr) : IsStr(v.arr[k])

NormalizedAll(v) == [k \in 1..Len(v.arr) |-> normalizePhone(v.arr[k].str)]

GroupsList(a, action) ==
    LET T == "whatsapp_groups"
        limit == IF IsNum(a.limit) THEN a.limit.num ELSE DefaultGroupLimit
        \* for i, group := range response.Data { if i >= limit { break } ... }
        Shown(data) == IF limit <= 0 THEN <<>> ELSE SubSeq(data, 1, Min(limit, Len(data)))
    IN  {IF g.err # NilStr
           THEN Returned(<<Call("MyListGroups", <<>>)>>,
                         createError(T, action, "list_failed", "Could not list groups",
                                     g.err), "")
           ELSE Returned(<<Call("MyListGroups", <<>>)>>,
                         createResponse(T, action, "success",
                             [count |-> Len(Shown(g.Data)), groups |-> Shown(g.Data)]),
                         "n groups")
         : g \in GroupsOutcomes}

GroupsCreate(a, action) ==
    IF ~IsStr(a.group_name) \/ ~IsStringArray(a.participants)
      THEN {Panicked(<<>>)}
      ELSE CallThenRespond("whatsapp_groups", action,
               Call("CreateGroup", [Title |-> a.group_name.str,
                                    Participants |-> NormalizedAll(a.participants)]),
               "create_failed", "Could not create group",
               [name |-> a.group_name.str, participants |-> Len(a.participants.arr)],
               "Group created")

GroupsInfo(a, action) ==
    IF ~IsStr(a.group_id) THEN {Panicked(<<>>)}
    ELSE CallThenRespond("whatsapp_groups", action,
             Call("GroupInfo", a.group_id.str), "info_failed",
             "Could not get group info", [group |-> a.group_id.str], "")

GroupsJoin(a, action) ==
    IF ~IsStr(a.invite_link) THEN {Panicked(<<>>)}
    ELSE CallThenRespond("whatsapp_groups", action,
             Call("JoinGroupWithLink", a.invite_link.str), "join_failed",
             "Could not join group", [joined |-> TRUE], "Joined group")

GroupsLeave(a, action) ==
    IF ~IsStr(a.group_id) THEN {Panicked(<<>>)}
    ELSE CallThenRespond("whatsapp_groups", action,
             Call("LeaveGroup", a.group_id.str), "leave_failed",
             "Could not leave group", [group_id |-> a.group_id.str, left |-> TRUE],
             "Left group")

GroupsManage(a, action) ==
    IF ~IsStr(a.group_id) \/ ~IsStr(a.operation) \/ ~IsStringArray(a.participants)
      THEN {Panicked(<<>>)}
    ELSE IF a.operation.str \in {Txt("add"), Txt("remove")}
      THEN CallThenRespond("whatsapp_groups", action,
               Call("ManageParticipant",
                    [GroupID |-> a.group_id.str,
                     Participants |-> NormalizedAll(a.participants),
                     Action |-> a.operation.str]),
               "manage_failed", "Could not manage participants",
               [group_id |-> a.group_id.str, operation |-> a.operation.str,
                participants |-> NormalizedAll(a.participants)],
               "operation n participants")
    ELSE {Returned(<<>>, createError("whatsapp_groups", action, "invalid_operation",
                                     "Unknown operation", a.operation.str), "")}

IsTrueText(value) == value = Txt("true") \/ value = <<"1">>

GroupsSettings(a, action) ==
    IF ~IsStr(a.group_id) \/ ~IsStr(a.setting) \/ ~IsStr(a.value)
      THEN {Panicked(<<>>)}
    ELSE LET T == "whatsapp_groups"
             setting == a.setting.str
             data == [group_id |-> a.group_id.str, setting |-> setting,
                      value |-> a.value.str]
             Update(call) == CallThenRespond(T, action, call, "settings_failed",
                                             "Could not update setting", data,
                                             "Updated setting")
         IN  CASE setting = Txt("name") ->
                    Update(Call("SetGroupName",
                                [GroupID |-> a.group_id.str, Name |-> a.value.str]))
               [] setting = Txt("locked") ->
                    Update(Call("SetGroupLocked",
                                [GroupID |-> a.group_id.str,
                                 Locked |-> IsTrueText(a.value.str)]))
               [] setting = Txt("announce") ->
                    Update(Call("SetGroupAnnounce",
                                [GroupID |-> a.group_id.str,
                                 Announce |-> IsTrueText(a.value.str)]))
               [] OTHER ->
                    {Returned(<<>>, createError(T, action, "invalid_setting",
                                                "Unknown setting", setting), "")}

handleGroups(a) ==
    IF ~IsStr(a.action) THEN {Panicked(<<>>)}
    ELSE LET action == a.action.str
         IN  CASE action = Txt("list") -> GroupsList(a, action)
               [] action = Txt("create") -> GroupsCreate(a, action)
               [] action = Txt("info") -> GroupsInfo(a, action)
               [] action = Txt("join") -> GroupsJoin(a, action)
               [] action = Txt("leave") -> GroupsLeave(a, action)
               [] action = Txt("manage") -> GroupsManage(a, action)
               [] action = Txt("settings") -> GroupsSettings(a, action)
               [] OTHER -> {InvalidAction("whatsapp_groups", action)}

(***************************************************************************)
(* TOOL 5: handleContacts.                                                 *)
(***************************************************************************)
UserServer == Txt("@s.whatsapp.net")

ContactsCheck(a, action) ==
    IF ~IsStringArray(a.phones) THEN {Panicked(<<>>)}
    ELSE LET n == Len(a.phones.arr)
             normalize == IF IsBool(a.normalize) THEN a.normalize.bool ELSE TRUE
             phones == [k \in 1..n |-> IF normalize THEN normalizePhone(a.phones.arr[k].str)
                                                    ELSE a.phones.arr[k].str]
             On(c) == c.err = NilStr /\ c.IsOnWhatsApp
         IN  {LET onWhatsApp == Cardinality({k \in 1..n : On(cs[k])})
              IN  Returned([k \in 1..n |-> Call("IsOnWhatsApp", phones[k])],
                           createResponse("whatsapp_contacts", action, "success",
                               [total |-> n, on_whatsapp |-> onWhatsApp,
                                not_on_whatsapp |-> n - onWhatsApp,
                                results |-> [k \in 1..n |->
                                    [phone |-> phones[k], on_whatsapp |-> On(cs[k]),
                                     jid |-> IF On(cs[k])
                                               THEN normalizePhone(phones[k]) \o UserServer
                                               ELSE NilStr,
                                     error |-> cs[k].err]]]),
                           "n/m on WhatsApp")
              : cs \in [1..n -> CheckOutcomes]}

\* for _, p := range phonesRaw { phone := normalizePhone(p.(string)); Info; Avatar }
RECURSIVE ContactsInfoFrom(_, _, _, _, _)
ContactsInfoFrom(a, action, k, made, rs) ==
    IF k > Len(a.phones.arr)
      THEN {Returned(made, createResponse("whatsapp_contacts", action, "success",
                                          [count |-> Len(rs), results |-> rs]), "")}
    ELSE IF ~IsStr(a.phones.arr[k]) THEN {Panicked(made)}
    ELSE LET phone == normalizePhone(a.phones.arr[k].str)
             getAvatar == IF IsBool(a.get_avatar) THEN a.get_avatar.bool ELSE FALSE
             info == Call("Info", phone)
             Entry(e, url) == [phone |-> phone, error |-> e, avatar_url |-> url]
         IN  UNION {
               IF e # NilStr
                 THEN ContactsInfoFrom(a, action, k + 1, Append(made, info),
                                       Append(rs, Entry(e, NilStr)))
               ELSE IF getAvatar
                 THEN UNION {ContactsInfoFrom(a, action, k + 1,
                                 made \o <<info, Call("Avatar", phone)>>,
                                 Append(rs, Entry(NilStr, IF ae = NilStr THEN Txt("url")
                                                                         ELSE NilStr)))
                             : ae \in ErrOutcomes}
               ELSE ContactsInfoFrom(a, action, k + 1, Append(made, info),
                                     Append(rs, Entry(NilStr, NilStr)))
               : e \in ErrOutcomes}

ContactsInfo(a, action) ==
    IF ~IsArr(a.phones) THEN {Panicked(<<>>)}
    ELSE ContactsInfoFrom(a, action, 1, <<>>, <<>>)

ContactsList(action) ==
    {Returned(<<>>, createResponse("whatsapp_contacts", action, "success",
                        [message |-> "Contact list not implemented in current API",
                         count |-> 0]), "")}

handleContacts(a) ==
    IF ~IsStr(a.action) THEN {Panicked(<<>>)}
    ELSE LET action == a.action.str
         IN  CASE action = Txt("check") -> ContactsCheck(a, action)
               [] action = Txt("info") -> ContactsInfo(a, action)
               [] action = Txt("list") -> ContactsList(action)
               [] OTHER -> {InvalidAction("whatsapp_contacts", action)}

(***************************************************************************)
(* TOOL 6: handleChats.                                                    *)
(***************************************************************************)
GroupServer == <<"@", "g", ".", "u", "s">>

ChatG == [JID |-> <<"7">> \o GroupServer, Name |-> <<"F", "a", "b">>]

ChatC == [JID |-> <<"5", "@", "s">>, Name |-> <<"B">>]

ChatLists == {<<>>, <<ChatG, ChatC>>}

ListChatsOutcomes ==
    {[err |-> e, Data |-> <<>>] : e \in ErrMsgs}
        \cup {[err |-> NilStr, Data |-> d] : d \in ChatLists}

DefaultChatLimit == 50

DefaultMuteSeconds == 8 * 3600

\* switch filter { "all", "unread": true; "groups": JID contains "@g.us";
\*                 "archived": false; default: true }
ChatIncluded(filter, chat) ==
    CASE filter = Txt("groups") -> Contains(chat.JID, GroupServer)
      [] filter = Txt("archived") -> FALSE
      [] OTHER -> TRUE

ChatsList(a, action) ==
    LET T == "whatsapp_chats"
        limit == IF IsNum(a.limit) THEN a.limit.num ELSE DefaultChatLimit
        filter == IF IsStr(a.filter) THEN a.filter.str ELSE Txt("all")
        list == Call("ListChats", [Limit |-> limit])
        Keep(chat) == ChatIncluded(filter, chat)
        Shown(chat) == [jid |-> chat.JID, name |-> chat.Name,
                        is_group |-> Contains(chat.JID, GroupServer)]
        Filtered(data) == LET kept == SelectSeq(data, Keep)
                          IN  [k \in 1..Len(kept) |-> Shown(kept[k])]
    IN  {IF c.err # NilStr
           THEN Returned(<<list>>, createError(T, action, "list_failed",
                                               "Could not list chats", c.err), "")
           ELSE Returned(<<list>>,
                         createResponse(T, action, "success",
                             [filter |-> filter, count |-> Len(Filtered(c.Data)),
                              chats |-> Filtered(c.Data)]),
                         "n chats")
         : c \in ListChatsOutcomes}

\* case "archive", "unarchive": h.chatService.PinChat(... Pinned: archive)
ChatsArchive(a, action) ==
    IF ~IsStr(a.chat_id) THEN {Panicked(<<>>)}
    ELSE LET archive == action = Txt("archive")
         IN  CallThenRespond("whatsapp_chats", action,
                 Call("PinChat", [ChatJID |-> a.chat_id.str, Pinned |-> archive]),
                 "archive_failed", "Could not archive/unarchive",
                 [chat_id |-> a.chat_id.str, archived |-> archive], "Archived")

ChatsPin(a, action) ==
    IF ~IsStr(a.chat_id) THEN {Panicked(<<>>)}
    ELSE LET pin == action = Txt("pin")
         IN  CallThenRespond("whatsapp_chats", action,
                 Call("PinChat", [ChatJID |-> a.chat_id.str, Pinned |-> pin]),
                 "pin_failed", "Could not pin/unpin",
                 [chat_id |-> a.chat_id.str, pinned |-> pin], "Pinned")

ChatsDelete(a, action) ==
    IF ~IsStr(a.chat_id) THEN {Panicked(<<>>)}
    ELSE {Returned(<<>>, createResponse("whatsapp_chats", action, "success",
                             [chat_id |-> a.chat_id.str,
                              message |-> "Delete not implemented in current API"]), "")}

ChatsMute(a, action) ==
    IF ~IsStr(a.chat_id) THEN {Panicked(<<>>)}
    ELSE LET mute == action = Txt("mute")
             duration == IF ~mute THEN 0
                         ELSE IF IsNum(a.mute_duration) THEN a.mute_duration.num
                         ELSE DefaultMuteSeconds
         IN  {Returned(<<>>, createResponse("whatsapp_chats", action, "success",
                                 [chat_id |-> a.chat_id.str, muted |-> mute,
                                  duration |-> duration,
                                  message |-> "Mute not implemented in current API"]), "")}

handleChats(a) ==
    IF ~IsStr(a.action) THEN {Panicked(<<>>)}
    ELSE LET action == a.action.str
         IN  CASE action = Txt("list") -> ChatsList(a, action)
               [] action \in {Txt("archive"), Txt("unarchive")} -> ChatsArchive(a, action)
               [] action \in {Txt("pin"), Txt("unpin")} -> ChatsPin(a, action)
               [] action = Txt("delete") -> ChatsDelete(a, action)
               [] action \in {Txt("mute"), Txt("unmute")} -> ChatsMute(a, action)
               [] OTHER -> {InvalidAction("whatsapp_chats", action)}

(***************************************************************************)
(* Invocations.  The argument mappings cover, for every parameter a        *)
(* handler reads, the absent case, the wrongly typed case and the values   *)
(* its branches distinguish; a parameter the handler never reads is left   *)
(* absent.                                                                 *)
(***************************************************************************)
RName == NamePrefix \o <<"f", "a">>

RGroup == <<"9", "@", "g", ".", "u", "s">>

RPhone == <<"5", "5">>

RecipientStrings == {RName, RGroup, RPhone}

RECURSIVE SeqsUpTo(_, _)
SeqsUpTo(set, n) ==
    IF n = 0 THEN {<<>>}
    ELSE LET shorter == SeqsUpTo(set, n - 1)
         IN  shorter \cup {Append(q, x) : q \in shorter, x \in set}

RecipientInputs ==
    {Absent, S(RPhone), A(<<N(1)>>)}
        \cup {A(q) : q \in SeqsUpTo({S(r) : r \in RecipientStrings}, MaxRecipients)}

ContactOK == O([name |-> S(<<"B">>), phone |-> S(RPhone)])

ContactNoName == O([phone |-> S(RPhone)])

KindInputs ==
    {[kind |-> Absent],
     [kind |-> N(1)],
     [kind |-> S(Txt("text"))],
     [kind |-> S(Txt("document"))],
     [kind |-> S(Txt("image"))],
     [kind |-> S(Txt("image")), media_url |-> S(Txt("http://m"))],
     [kind |-> S(Txt("link"))],
     [kind |-> S(Txt("link")), link_url |-> S(Txt("http://l"))],
     [kind |-> S(Txt("location"))],
     [kind |-> S(Txt("location")), location |-> O([lat |-> N(1), lng |-> N(2)])],
     [kind |-> S(Txt("contact"))],
     [kind |-> S(Txt("contact")), contact |-> ContactNoName],
     [kind |-> S(Txt("contact")), contact |-> ContactOK]}

Key1 == <<"k">>

KeyInputs == {Absent, S(<<>>), S(Key1)}

FlagInputs == {Absent, B(TRUE), B(FALSE)}

UnknownAction == Txt("bogus")

SendActionInputs == {Absent, S(UnknownAction)}

SendKeys ==
    {"action", "recipients", "kind", "media_url", "link_url", "location",
     "contact", "check_and_format", "idempotency_key"}

\* the options of a send: the key and the flag in every combination the
\* handler tells apart
SendOptions ==
    {[key |-> key, caf |-> caf, act |-> Absent] :
        key \in KeyInputs \ {S(<<>>)}, caf \in FlagInputs \ {B(TRUE)}}

\* the values the handler does not tell from an absent option: the flag
\* spelled out, the empty key and the action
DefaultLikeOptions ==
    {[key |-> Absent, caf |-> B(TRUE), act |-> Absent],
     [key |-> S(<<>>), caf |-> Absent, act |-> Absent]}
    \cup {[key |-> Absent, caf |-> Absent, act |-> act] :
            act \in SendActionInputs \ {Absent}}

TextKind == [kind |-> S(Txt("text"))]

SendArgs ==
    {[WithArgs(SendKeys, kv) EXCEPT !.recipients = r, !.idempotency_key = opt.key,
                          !.check_and_format = opt.caf, !.action = opt.act] :
        kv \in KindInputs, r \in RecipientInputs, opt \in SendOptions}
    \cup
    {[WithArgs(SendKeys, TextKind) EXCEPT !.recipients = r,
                          !.idempotency_key = opt.key,
                          !.check_and_format = opt.caf, !.action = opt.act] :
        r \in RecipientInputs, opt \in DefaultLikeOptions}

BadActionInputs == {Absent, N(1), S(UnknownAction)}

Maybe(v) == {Absent, v}

ChatId == <<"5", "@", "s">>

AuthKeys == {"action", "phone_number", "include_qr_data"}

AuthArgs ==
    {WithArgs(AuthKeys, [action |-> act]) :
        act \in BadActionInputs
                \cup {S(Txt(n)) : n \in {"logout", "status", "reconnect", "devices"}}}
    \cup {WithArgs(AuthKeys, [action |-> S(Txt("login_qr")), include_qr_data |-> q]) :
            q \in Maybe(B(TRUE))}
    \cup {WithArgs(AuthKeys, [action |-> S(Txt("login_code")), phone_number |-> ph]) :
            ph \in Maybe(S(RPhone))}

MessagesKeys ==
    {"action", "chat_id", "limit", "auto_mark_read", "message_id", "reaction",
     "search_term"}

MessagesArgs ==
    {WithArgs(MessagesKeys, [action |-> act]) : act \in BadActionInputs}
    \cup {WithArgs(MessagesKeys, [action |-> S(Txt("get")), chat_id |-> c, limit |-> l,
                                  auto_mark_read |-> m]) :
            c \in Maybe(S(ChatId)), l \in Maybe(N(1)), m \in Maybe(B(FALSE))}
    \cup {WithArgs(MessagesKeys, [action |-> S(Txt("mark_read")), chat_id |-> c]) :
            c \in Maybe(S(ChatId))}
    \cup {WithArgs(MessagesKeys, [action |-> S(Txt("react")), chat_id |-> c,
                                  message_id |-> m, reaction |-> r]) :
            c \in Maybe(S(ChatId)), m \in Maybe(S(Txt("m1"))), r \in Maybe(S(Txt("ok")))}
    \cup {WithArgs(MessagesKeys, [action |-> S(Txt("delete")), chat_id |-> c,
                                  message_id |-> m]) :
            c \in Maybe(S(ChatId)), m \in Maybe(S(Txt("m1")))}
    \cup {WithArgs(MessagesKeys, [action |-> S(Txt("search")), chat_id |-> c,
                                  search_term |-> t]) :
            c \in Maybe(S(ChatId)), t \in Maybe(S(<<"h">>))}

GroupsKeys ==
    {"action", "group_id", "group_name", "participants", "invite_link", "operation",
     "setting", "value", "limit"}

GroupId == <<"7">> \o GroupServer

ParticipantInputs == {Absent, A(<<S(RPhone)>>), A(<<S(RPhone), N(1)>>)}

GroupsArgs ==
    {WithArgs(GroupsKeys, [action |-> act]) : act \in BadActionInputs}
    \cup {WithArgs(GroupsKeys, [action |-> S(Txt("list")), limit |-> l]) :
            l \in {Absent, N(0), N(1)}}
    \cup {WithArgs(GroupsKeys, [action |-> S(Txt("create")), group_name |-> g,
                                participants |-> ps]) :
            g \in Maybe(S(<<"B">>)), ps \in ParticipantInputs}
    \cup {WithArgs(GroupsKeys, [action |-> S(Txt(n)), group_id |-> g]) :
            n \in {"info", "leave"}, g \in Maybe(S(GroupId))}
    \cup {WithArgs(GroupsKeys, [action |-> S(Txt("join")), invite_link |-> l]) :
            l \in Maybe(S(Txt("http://i")))}
    \cup {WithArgs(GroupsKeys, [action |-> S(Txt("manage")), group_id |-> g,
                                operation |-> o, participants |-> ps]) :
            g \in Maybe(S(GroupId)),
            o \in {Absent, S(Txt("add")), S(Txt("remove")), S(Txt("bogus"))},
            ps \in ParticipantInputs}
    \cup {WithArgs(GroupsKeys, [action |-> S(Txt("settings")), group_id |-> g,
                                setting |-> st, value |-> v]) :
            g \in Maybe(S(GroupId)),
            st \in {Absent, S(Txt("name")), S(Txt("locked")), S(Txt("announce")),
                    S(Txt("bogus"))},
            v \in Maybe(S(Txt("true")))}

ContactsKeys == {"action", "phones", "normalize", "get_avatar"}

PhoneInputs ==
    {Absent, A(<<>>), A(<<S(RPhone), S(<<"6">>)>>), A(<<S(RPhone), N(1)>>)}

ContactsArgs ==
    {WithArgs(ContactsKeys, [action |-> act]) :
        act \in BadActionInputs \cup {S(Txt("list"))}}
    \cup {WithArgs(ContactsKeys, [action |-> S(Txt("check")), phones |-> ps,
                                  normalize |-> nz]) :
            ps \in PhoneInputs, nz \in Maybe(B(FALSE))}
    \cup {WithArgs(ContactsKeys, [action |-> S(Txt("info")), phones |-> ps,
                                  get_avatar |-> ga]) :
            ps \in PhoneInputs, ga \in Maybe(B(TRUE))}

ChatsKeys == {"action", "chat_id", "filter", "limit", "mute_duration"}

ChatsArgs ==
    {WithArgs(ChatsKeys, [action |-> act]) : act \in BadActionInputs}
    \cup {WithArgs(ChatsKeys, [action |-> S(Txt("list")), limit |-> l, filter |-> f]) :
            l \in Maybe(N(1)),
            f \in {Absent, S(Txt("groups")), S(Txt("archived"))}}
    \cup {WithArgs(ChatsKeys, [action |-> S(Txt(n)), chat_id |-> c]) :
            n \in {"archive", "unarchive", "pin", "unpin", "delete", "unmute"},
            c \in Maybe(S(ChatId))}
    \cup {WithArgs(ChatsKeys, [action |-> S(Txt("mute")), chat_id |-> c,
                               mute_duration |-> d]) :
            c \in Maybe(S(ChatId)), d \in Maybe(N(60))}

\* a completed whatsapp_send invocation that carried a non-empty idempotency key
CompletedKeyedSend ==
    pc = "done" /\ req.tool = "whatsapp_send" /\ HasIdempKey(req.args)

Receive(tool, a, again) ==
    /\ inv < MaxInvocations
    /\ inv' = inv + 1
    /\ pc' = "received"
    /\ req' = [tool |-> tool, args |-> a]
    /\ repeat' = again
    /\ prevStatus' = IF again THEN resp.envelope.Status ELSE "none"
    /\ idx' = 0
    /\ results' = <<>>
    /\ sent' = 0
    /\ failed' = 0
    /\ check' = NoCheck
    /\ listed' = NoGroups
    /\ sendErr' = NilStr
    /\ calls' = <<>>
    /\ resp' = Absent
    /\ UNCHANGED <<handlerState, chatVars, phoneVars, workers>>

InvokeSend == pc = "idle" /\ \E a \in SendArgs : Receive("whatsapp_send", a, FALSE)

InvokeAuth == pc = "idle" /\ \E a \in AuthArgs : Receive("whatsapp_auth", a, FALSE)

InvokeMessages == pc = "idle" /\ \E a \in MessagesArgs : Receive("whatsapp_messages", a, FALSE)

InvokeGroups == pc = "idle" /\ \E a \in GroupsArgs : Receive("whatsapp_groups", a, FALSE)

InvokeContacts == pc = "idle" /\ \E a \in ContactsArgs : Receive("whatsapp_contacts", a, FALSE)

InvokeChats == pc = "idle" /\ \E a \in ChatsArgs : Receive("whatsapp_chats", a, FALSE)

\* the caller issues the send it has just completed once more, unchanged
InvokeSendAgain == CompletedKeyedSend /\ Receive(req.tool, req.args, TRUE)

\* a single-shot handler runs to its end in one of the ways of `ends`
Complete(ends) ==
    /\ \E o \in ends :
        /\ calls' = calls \o o.calls
        /\ IF o.panics
             THEN pc' = "panicked" /\ UNCHANGED resp
             ELSE pc' = "done" /\ resp' = o.result
    /\ UNCHANGED <<handlerState, req, inv, sendLocals, history, chatVars, phoneVars, workers>>

HandleAuth == pc = "received" /\ req.tool = "whatsapp_auth" /\ Complete(handleAuth(req.args))

HandleMessages ==
    pc = "received" /\ req.tool = "whatsapp_messages" /\ Complete(handleMessages(req.args))

HandleGroups ==
    pc = "received" /\ req.tool = "whatsapp_groups" /\ Complete(handleGroups(req.args))

HandleContacts ==
    pc = "received" /\ req.tool = "whatsapp_contacts" /\ Complete(handleContacts(req.args))

HandleChats == pc = "received" /\ req.tool = "whatsapp_chats" /\ Complete(handleChats(req.args))

\* the handler has returned (or was aborted); its frame is gone, and only the
\* process-wide state of OptimizedHandlerV2 outlives the invocation
Return ==
    /\ pc \in {"done", "panicked"}
    /\ pc' = "idle"
    /\ req' = NoReq
    /\ idx' = 0
    /\ results' = <<>>
    /\ sent' = 0
    /\ failed' = 0
    /\ check' = NoCheck
    /\ listed' = NoGroups
    /\ sendErr' = NilStr
    /\ calls' = <<>>
    /\ resp' = Absent
    /\ repeat' = FALSE
    /\ prevStatus' = "none"
    /\ UNCHANGED <<handlerState, inv, chatVars, phoneVars, workers>>

Next ==
    \/ InvokeAuth
    \/ InvokeSend
    \/ InvokeSendAgain
    \/ InvokeMessages
    \/ InvokeGroups
    \/ InvokeContacts
    \/ InvokeChats
    \/ HandleAuth
    \/ HandleMessages
    \/ HandleGroups
    \/ HandleContacts
    \/ HandleChats
    \/ Return
    \/ HandleSendStart
    \/ HandleSendStep

Spec == Init /\ [][Next]_vars

(***************************************************************************)
(* serviceChat.ListChats: the merge of the persisted chats with the live   *)
(* group and contact directories.                                          *)
(***************************************************************************)
MaxLimit == 2

MaxOffset == 3

StoredTime == 1

Now == 9

\* time.Time.Format(time.RFC3339): the text of an instant
FormatRFC3339(t) == [rfc3339 |-> t]

MapPut(m, k, v) == [x \in DOMAIN m \cup {k} |-> IF x = k THEN v ELSE m[x]]

\* request.Search != "" && !strings.Contains(ToLower(name), ToLower(request.Search))
FilteredOut(search, name) == search # <<>> /\ ~Contains(ToLower(name), ToLower(search))

StoredInfo(chat) ==
    [JID |-> chat.JID, Name |-> chat.Name,
     LastMessageTime |-> FormatRFC3339(chat.LastMessageTime),
     IsGroup |-> Contains(chat.JID, GroupServer), MessagesSynced |-> TRUE]

GroupInfoOf(group) ==
    [JID |-> group.JID, Name |-> group.Name, LastMessageTime |-> FormatRFC3339(Now),
     IsGroup |-> TRUE, MessagesSynced |-> FALSE]

ContactInfoOf(contact) ==
    [JID |-> contact.JID,
     Name |-> IF contact.FullName = <<>> THEN contact.User ELSE contact.FullName,
     LastMessageTime |-> FormatRFC3339(Now), IsGroup |-> FALSE, MessagesSynced |-> FALSE]

\* for _, chat := range storedChats { ...; chatMap[chat.JID] = chatInfo }
RECURSIVE MergeStored(_, _, _, _)
MergeStored(chatMap, chats, k, search) ==
    IF k > Len(chats) THEN chatMap
    ELSE IF FilteredOut(search, StoredInfo(chats[k]).Name)
      THEN MergeStored(chatMap, chats, k + 1, search)
    ELSE MergeStored(MapPut(chatMap, chats[k].JID, StoredInfo(chats[k])), chats, k + 1, search)

\* for _, group := range groups { if exists {continue}; ...; chatMap[jidStr] = chatInfo }
RECURSIVE MergeGroups(_, _, _, _)
MergeGroups(chatMap, groups, k, search) ==
    IF k > Len(groups) THEN chatMap
    ELSE IF groups[k].JID \in DOMAIN chatMap
      THEN MergeGroups(chatMap, groups, k + 1, search)
    ELSE IF FilteredOut(search, GroupInfoOf(groups[k]).Name)
      THEN MergeGroups(chatMap, groups, k + 1, search)
    ELSE MergeGroups(MapPut(chatMap, groups[k].JID, GroupInfoOf(groups[k])), groups, k + 1,
                     search)

\* for jid, contact := range contacts { if group {continue}; if exists {continue}; ... }
\* (the contacts are a map keyed by JID: the order of the range does not matter)
RECURSIVE MergeContacts(_, _, _, _)
MergeContacts(chatMap, contacts, k, search) ==
    IF k > Len(contacts) THEN chatMap
    ELSE IF Contains(contacts[k].JID, GroupServer)
      THEN MergeContacts(chatMap, contacts, k + 1, search)
    ELSE IF contacts[k].JID \in DOMAIN chatMap
      THEN MergeContacts(chatMap, contacts, k + 1, search)
    ELSE IF FilteredOut(search, ContactInfoOf(contacts[k]).Name)
      THEN MergeContacts(chatMap, contacts, k + 1, search)
    ELSE MergeContacts(MapPut(chatMap, contacts[k].JID, ContactInfoOf(contacts[k])),
                       contacts, k + 1, search)

\* the chatMap after the three loops, for the sources as they were obtained
MergedChats(search, stored, groups, contacts) ==
    MergeContacts(MergeGroups(MergeStored(<<>>, stored, 1, search), groups, 1, search),
                  contacts, 1, search)

\* a range that may visit a key of the map more than once
MapToSlicesRepeating(chatMap) ==
    {[k \in 1..Cardinality(DOMAIN chatMap) |-> chatMap[order[k]]] :
        order \in [1..Cardinality(DOMAIN chatMap) -> DOMAIN chatMap]}

\* for _, chatInfo := range chatMap { chatInfos = append(chatInfos, chatInfo) }:
\* Go ranges over a map in an unspecified order, so every order is possible
MapToSlices(chatMap) ==
    {[k \in 1..Cardinality(DOMAIN chatMap) |-> chatMap[order[k]]] :
        order \in {o \in [1..Cardinality(DOMAIN chatMap) -> DOMAIN chatMap] :
                     \A x, y \in DOMAIN o : x # y => o[x] # o[y]}}

ApplyOffset(chatInfos, offset) ==
    IF offset > 0 /\ offset < Len(chatInfos)
      THEN SubSeq(chatInfos, offset + 1, Len(chatInfos))
    ELSE IF offset >= Len(chatInfos) THEN <<>>
    ELSE chatInfos

\* a limit that truncates whenever it is below the length, zero included
ApplyLimitFromZero(chatInfos, limit) ==
    IF limit < Len(chatInfos) THEN SubSeq(chatInfos, 1, limit) ELSE chatInfos

ApplyLimit(chatInfos, limit) ==
    IF limit > 0 /\ limit < Len(chatInfos) THEN SubSeq(chatInfos, 1, limit) ELSE chatInfos

\* a page whose total is counted after the offset and the limit were applied
ListPageCountedAfterPaging(chatInfos, request) ==
    [kind |-> "ok",
     Data |-> ApplyLimit(ApplyOffset(chatInfos, request.Offset), request.Limit),
     Pagination |-> [Limit |-> request.Limit, Offset |-> request.Offset,
                     Total |-> Len(ApplyLimit(ApplyOffset(chatInfos, request.Offset),
                                              request.Limit))]]

ListPage(chatInfos, request) ==
    [kind |-> "ok",
     Data |-> ApplyLimit(ApplyOffset(chatInfos, request.Offset), request.Limit),
     Pagination |-> [Limit |-> request.Limit, Offset |-> request.Offset,
                     Total |-> Len(chatInfos)]]

\* the records of a source are used even though the call returned an error
ObtainedDespiteFault(source, fault) == source

\* a source that returned an error is replaced by an empty one
Obtained(source, fault) == IF fault THEN <<>> ELSE source

ListChatsPages(request, faults) ==
    {ListPage(chatInfos, request) :
        chatInfos \in MapToSlices(MergedChats(request.Search,
                                              Obtained(chatStore, faults.store),
                                              Obtained(groupDir, faults.groups),
                                              Obtained(contactDir, faults.contacts)))}

G1 == <<"7">> \o GroupServer

U1 == <<"5", "@", "s">>

U2 == <<"6", "@", "s">>

NameA == <<"F", "a">>

NameB == <<"b">>

OneOrNone(set) == {<<>>} \cup {<<x>> : x \in set}

StoreChoices ==
    {g \o u : g \in OneOrNone({[JID |-> G1, Name |-> n, LastMessageTime |-> StoredTime] :
                                  n \in {NameA, NameB}}),
              u \in OneOrNone({[JID |-> U1, Name |-> n, LastMessageTime |-> StoredTime] :
                                  n \in {NameA, NameB}})}

GroupChoices == OneOrNone({[JID |-> G1, Name |-> n] : n \in {NameA, NameB}})

ContactChoices ==
    {g \o u \o v :
        g \in OneOrNone({[JID |-> G1, User |-> <<"7">>, FullName |-> NameA]}),
        u \in OneOrNone({[JID |-> U1, User |-> <<"5">>, FullName |-> n] :
                            n \in {NameA, <<>>}}),
        v \in OneOrNone({[JID |-> U2, User |-> <<"6">>, FullName |-> NameB]})}

Searches == {<<>>, <<"f">>, <<"B">>}

ListRequests ==
    [Search : Searches, Limit : 0..MaxLimit, Offset : 0..MaxOffset]

FaultChoices == [store : BOOLEAN, groups : BOOLEAN, contacts : BOOLEAN]

InitChats ==
    /\ InitDispatch
    /\ chatStore \in StoreChoices
    /\ groupDir \in GroupChoices
    /\ contactDir \in ContactChoices
    /\ InitNoListing
    /\ InitNoPhone
    /\ InitNoWorkers

\* validations.ValidateListChats rejects the request
ListChatsInvalid ==
    /\ listResponse.kind = "none"
    /\ \E request \in ListRequests :
        /\ listRequest' = request
        /\ listFaults' = NoFaults
        /\ listResponse' = [kind |-> "error"]
    /\ UNCHANGED <<dispatchVars, chatSources, followUp, phoneVars, workers>>

\* utils.MustLogin panics: the client is not logged in
ListChatsNotLoggedIn ==
    /\ listResponse.kind = "none"
    /\ \E request \in ListRequests :
        /\ listRequest' = request
        /\ listFaults' = NoFaults
        /\ listResponse' = [kind |-> "panic"]
    /\ UNCHANGED <<dispatchVars, chatSources, followUp, phoneVars, workers>>

ListChats ==
    /\ listResponse.kind = "none"
    /\ \E request \in ListRequests, faults \in FaultChoices :
        /\ listRequest' = request
        /\ listFaults' = faults
        /\ listResponse' \in ListChatsPages(request, faults)
    /\ UNCHANGED <<dispatchVars, chatSources, followUp, phoneVars, workers>>

\* the caller lists again with the same search and limit, the sources and
\* their faults as before: the same page once more, or the page after it
ListChatsAgain ==
    /\ listResponse.kind = "ok"
    /\ nextResponse.kind = "none"
    /\ \E offset \in {listRequest.Offset, listRequest.Offset + listRequest.Limit} :
        /\ nextRequest' = [listRequest EXCEPT !.Offset = offset]
        /\ nextResponse' \in ListChatsPages([listRequest EXCEPT !.Offset = offset],
                                            listFaults)
    /\ UNCHANGED <<dispatchVars, chatSources, listRequest, listFaults, listResponse,
                   phoneVars, workers>>

NextChats ==
    \/ ListChatsInvalid
    \/ ListChatsNotLoggedIn
    \/ ListChats
    \/ ListChatsAgain

SpecChats == InitChats /\ [][NextChats]_vars

(***************************************************************************)
(* normalizePhone applied to one raw phone text.                           *)
(***************************************************************************)
MaxDigits == 11

DigitRow == <<"0", "1", "2", "3", "4", "5", "6", "7", "8", "9">>

\* n digits: the given first digit, then 1, 2, 3, ... in turn
PhoneBody(first, n) ==
    [k \in 1..n |-> IF k = 1 THEN first ELSE DigitRow[((k - 1) % 10) + 1]]

\* the digits written with a separator after the first digit or at the end
Punctuated(body, how) ==
    CASE how = "dash" /\ Len(body) >= 1 -> <<body[1], "-">> \o Tail(body)
      [] how = "trail" -> body \o <<" ">>
      [] OTHER -> body

RawPhones ==
    {lead \o Punctuated(PhoneBody(first, n), how) :
        lead \in {<<>>, Plus, <<"(">>}, first \in {"1", "3"}, n \in 0..MaxDigits,
        how \in {"plain", "dash", "trail"}}

InitPhone ==
    /\ InitDispatch
    /\ chatStore = <<>>
    /\ groupDir = <<>>
    /\ contactDir = <<>>
    /\ InitNoListing
    /\ rawPhone \in RawPhones
    /\ canonical = Absent
    /\ renormalized = Absent
    /\ InitNoWorkers

NormalizePhone ==
    /\ canonical = Absent
    /\ canonical' = S(normalizePhone(rawPhone))
    /\ UNCHANGED <<dispatchVars, chatVars, rawPhone, renormalized, workers>>

\* the value returned is given to normalizePhone once more
NormalizePhoneAgain ==
    /\ IsStr(canonical)
    /\ renormalized = Absent
    /\ renormalized' = S(normalizePhone(canonical.str))
    /\ UNCHANGED <<dispatchVars, chatVars, rawPhone, canonical, workers>>

NextPhone == NormalizePhone \/ NormalizePhoneAgain

SpecPhone == InitPhone /\ [][NextPhone]_vars

(***************************************************************************)
(* handleSend called concurrently: the HTTP server runs every request in   *)
(* its own goroutine and the handler holds no lock, so the calls           *)
(* interleave at every access to the shared cache and counters.            *)
(*   lookup   inside the read  h.idempotencyCache[idempKey]                *)
(*   send     in the recipients loop, before a send call                   *)
(*   store    inside the write h.idempotencyCache[idempKey] = ...          *)
(*   respond  inside createResponse, reading the rate-limit counters       *)
(***************************************************************************)
Key2 == <<"j">>

WorkerKeys == {<<>>, Key1, Key2}

\* everything but the cache and the workers
sequentialVars ==
    <<rateLimitRemaining, rateLimitReset, pc, req, inv, sendLocals, calls, resp, history,
      chatVars, phoneVars>>

InitConcurrent ==
    /\ InitDispatch
    /\ chatStore = <<>>
    /\ groupDir = <<>>
    /\ contactDir = <<>>
    /\ InitNoListing
    /\ InitNoPhone
    /\ InitNoWorkers

\* an unsynchronized map write is in progress in another goroutine
WriteInProgress(w) == \E v \in DOMAIN workers : v # w /\ workers[v].at = "store"

\* the request arrives; with a key the handler enters the cache read
WorkerStart(w) ==
    /\ workers[w].at = "idle"
    /\ \E key \in WorkerKeys, n \in 1..MaxRecipients :
        workers' = [workers EXCEPT ![w] =
                      [at |-> IF key = <<>> THEN "send" ELSE "lookup",
                       key |-> key, left |-> n, cached |-> FALSE]]
    /\ UNCHANGED <<idempotencyCache, sequentialVars>>

\* cached, exists := h.idempotencyCache[idempKey]: a read that overlaps a
\* write of another goroutine is a data race and may see either answer
WorkerLookup(w) ==
    /\ workers[w].at = "lookup"
    /\ \E exists \in BOOLEAN :
        /\ WriteInProgress(w) \/ (exists <=> workers[w].key \in DOMAIN idempotencyCache)
        /\ workers' = [workers EXCEPT ![w].at = IF exists THEN "respond" ELSE "send",
                                      ![w].cached = exists,
                                      ![w].left = IF exists THEN 0 ELSE @]
    /\ UNCHANGED <<idempotencyCache, sequentialVars>>

AfterRecipient(worker) ==
    [worker EXCEPT !.left = @ - 1, !.at = IF worker.left = 1 THEN "respond" ELSE "send"]

\* the send call of one recipient; a success with a key enters the cache write
WorkerSend(w) ==
    /\ workers[w].at = "send"
    /\ \E err \in ErrOutcomes :
        workers' = [workers EXCEPT ![w] =
                      IF err = NilStr /\ workers[w].key # <<>>
                        THEN [@ EXCEPT !.at = "store"]
                        ELSE AfterRecipient(@)]
    /\ UNCHANGED <<idempotencyCache, sequentialVars>>

\* h.idempotencyCache[idempKey] = &SendResult{...}
WorkerStore(w) ==
    /\ workers[w].at = "store"
    /\ idempotencyCache' =
          MapPut(idempotencyCache, workers[w].key,
                 [message_id |-> <<w, workers[w].left>>, status |-> "sent", error |-> NilStr])
    /\ workers' = [workers EXCEPT ![w] = AfterRecipient(@)]
    /\ UNCHANGED sequentialVars

\* createResponse reads the counters and the handler returns
WorkerRespond(w) ==
    /\ workers[w].at = "respond"
    /\ workers' = [workers EXCEPT ![w].at = "done"]
    /\ UNCHANGED <<idempotencyCache, sequentialVars>>

\* the Go runtime may detect the concurrent map access and end the process
\* ("fatal error: concurrent map writes")
RuntimeFatal ==
    /\ \E v, w \in DOMAIN workers :
         v # w /\ workers[v].at = "store" /\ workers[w].at \in {"lookup", "store"}
    /\ workers' = [w \in DOMAIN workers |-> [workers[w] EXCEPT !.at = "crashed"]]
    /\ UNCHANGED <<idempotencyCache, sequentialVars>>

NextConcurrent ==
    \/ \E w \in DOMAIN workers : WorkerStart(w)
    \/ \E w \in DOMAIN workers : WorkerLookup(w)
    \/ \E w \in DOMAIN workers : WorkerSend(w)
    \/ \E w \in DOMAIN workers : WorkerStore(w)
    \/ \E w \in DOMAIN workers : WorkerRespond(w)
    \/ RuntimeFatal

SpecConcurrent == InitConcurrent /\ [][NextConcurrent]_vars

(***************************************************************************)
(* Properties of the dispatch layer (specification Spec).                  *)
(***************************************************************************)
IsSend == req.tool = "whatsapp_send"

SendCalls == SelectSeq(calls, LAMBDA c : c.svc \in SendServices)

Envelope == resp.envelope

\* the response was synthesized from the idempotency cache
IsCacheDerived == pc = "done" /\ IsSend /\ "cached" \in DOMAIN Envelope.Data

\* the response carries the result of a batch that ran
IsBatchResponse == pc = "done" /\ IsSend /\ "cached" \notin DOMAIN Envelope.Data

Supplied == Recipients(req.args)

Outcomes == Envelope.Data.results

\* C1: when a whatsapp_send batch with a non-empty idempotency_key and at
\* least one recipient is invoked a second time, unchanged, right after it
\* completed, the second invocation calls no send collaborator and its
\* response is the cache-derived one, whatever the status of the first.
C1_RepeatedBatchIsServedFromCache ==
    (repeat /\ Len(req.args.recipients.arr) > 0)
        => /\ SendCalls = <<>>
           /\ pc \notin {"loop", "panicked"}
           /\ pc = "done" => IsCacheDerived

\* C2: a whatsapp_send invocation whose idempotency_key has an entry in the
\* cache ends in its first step, has called no collaborator, leaves the cache
\* as it was and, its required parameters being well typed, returns the
\* response synthesized from the cached entry.
C2_CacheHitCallsNothing ==
    [][(/\ pc = "received"
        /\ IsSend
        /\ HasIdempKey(req.args)
        /\ req.args.idempotency_key.str \in DOMAIN idempotencyCache
        /\ pc' # pc)
         => /\ calls' = <<>>
            /\ idempotencyCache' = idempotencyCache
            /\ pc' \in {"done", "panicked"}
            /\ SendAssertionsHold(req.args)
                 => /\ pc' = "done"
                    /\ "cached" \in DOMAIN resp'.envelope.Data
                    /\ resp'.envelope.Data.results
                         = <<idempotencyCache[req.args.idempotency_key.str]>>]_vars

C2_Witness ==
    /\ IsCacheDerived
    /\ calls = <<>>
    /\ Len(Supplied) = 2
    /\ HasIdempKey(req.args)
    /\ req.args.idempotency_key.str \in DOMAIN idempotencyCache

AllSent == \A k \in 1..Len(Outcomes) : Outcomes[k].status = "sent"

NoneSent == \A k \in 1..Len(Outcomes) : Outcomes[k].status # "sent"

\* C5 as stated: the status of a whatsapp_send response is success when every
\* outcome is sent, error when no outcome is sent, partial otherwise.
C5_StatusFollowsOutcomes ==
    (pc = "done" /\ IsSend)
        => /\ AllSent => Envelope.Status = "success"
           /\ NoneSent => Envelope.Status = "error"
           /\ (~AllSent /\ ~NoneSent) => Envelope.Status = "partial"

\* C5 amended: the status of a whatsapp_send response is success when every
\* outcome is sent (an empty batch included), error when there is at least
\* one outcome and none is sent, and partial when some are sent and some not.
C5_StatusFollowsOutcomesOfNonEmptyBatch ==
    (pc = "done" /\ IsSend)
        => /\ AllSent => Envelope.Status = "success"
           /\ (NoneSent /\ Len(Outcomes) > 0) => Envelope.Status = "error"
           /\ (~AllSent /\ ~NoneSent) => Envelope.Status = "partial"

C5_Witness ==
    /\ IsBatchResponse
    /\ Len(Outcomes) = 2
    /\ ~AllSent
    /\ ~NoneSent
    /\ Envelope.Status = "partial"

\* C6: a whatsapp_send batch that has started ends only after every supplied
\* recipient has been processed and has its outcome recorded.
C6_BatchRunsToCompletion ==
    (IsSend /\ idx >= 1 /\ pc \in {"done", "panicked"})
        => Len(results) = Len(Supplied)

\* C7: no invocation of any tool ends in a fault: a handler is never aborted.
C7_NoTransportFault == pc # "panicked"

RecognisedActions(tool) ==
    CASE tool = "whatsapp_auth" ->
           {Txt(n) : n \in {"login_qr", "login_code", "logout", "status", "reconnect",
                            "devices"}}
      [] tool = "whatsapp_send" -> {Txt("send")}
      [] tool = "whatsapp_messages" ->
           {Txt(n) : n \in {"get", "mark_read", "react", "delete", "search"}}
      [] tool = "whatsapp_groups" ->
           {Txt(n) : n \in {"list", "create", "info", "join", "leave", "manage",
                            "settings"}}
      [] tool = "whatsapp_contacts" -> {Txt(n) : n \in {"check", "info", "list"}}
      [] tool = "whatsapp_chats" ->
           {Txt(n) : n \in {"list", "archive", "unarchive", "delete", "mute", "unmute",
                            "pin", "unpin"}}
      [] OTHER -> {}

HasUnknownAction ==
    /\ req.tool # "none"
    /\ IsStr(req.args.action)
    /\ req.args.action.str \notin RecognisedActions(req.tool)

\* C8: an invocation whose action string is not one the tool recognises calls
\* no collaborator and returns status error, code invalid_action, with the
\* action string as the detail.
C8_UnknownActionIsRejected ==
    HasUnknownAction
        => /\ calls = <<>>
           /\ pc = "done"
                => /\ Envelope.Status = "error"
                   /\ Envelope.Error # Absent
                   /\ Envelope.Error.Code = "invalid_action"
                   /\ Envelope.Error.Detail = req.args.action.str

\* a required parameter is absent or of the wrong shape: recipients or kind of
\* whatsapp_send, the action of the other tools
MissesRequiredParameter ==
    \/ IsSend /\ ~SendAssertionsHold(req.args)
    \/ req.tool \notin {"none", "whatsapp_send"} /\ ~IsStr(req.args.action)

\* C9: an invocation with a required parameter absent or of the wrong shape
\* completes with status error and code invalid_argument, having called no
\* collaborator.
C9_BadParameterIsInvalidArgument ==
    (MissesRequiredParameter /\ pc # "received")
        => /\ pc = "done"
           /\ calls = <<>>
           /\ Envelope.Status = "error"
           /\ Envelope.Error # Absent
           /\ Envelope.Error.Code = "invalid_argument"

(***************************************************************************)
(* Properties of the chat listing (specification SpecChats).               *)
(***************************************************************************)
\* C10: when the persisted store holds a chat X, every record for X in the
\* ListChats result is the persisted one: synced, with the stored data.
C10_PersistedRecordWins ==
    (listResponse.kind = "ok" /\ ~listFaults.store)
        => \A k \in 1..Len(listResponse.Data) :
             \A c \in 1..Len(chatStore) :
                chatStore[c].JID = listResponse.Data[k].JID
                    => /\ listResponse.Data[k].MessagesSynced
                       /\ listResponse.Data[k] = StoredInfo(chatStore[c])

\* the sources as the listing obtained them, and the chatMap its loops built
ObtainedStore == Obtained(chatStore, listFaults.store)

ObtainedGroups == Obtained(groupDir, listFaults.groups)

ObtainedContacts == Obtained(contactDir, listFaults.contacts)

ChatMap == MergedChats(listRequest.Search, ObtainedStore, ObtainedGroups, ObtainedContacts)

Listed == listResponse.kind = "ok"

JIDsOf(source) == {source[k].JID : k \in 1..Len(source)}

\* C11: the ListChats result never holds two records with the same JID,
\* whatever the overlap of the store, the group directory and the contacts.
C11_NoTwoRecordsShareJID ==
    Listed => \A i, j \in 1..Len(listResponse.Data) :
                 i # j => listResponse.Data[i].JID # listResponse.Data[j].JID

\* a listing of two or more records from sources that overlap on a JID
C11_Witness ==
    /\ Listed
    /\ Len(listResponse.Data) >= 2
    /\ JIDsOf(ObtainedStore) \cap (JIDsOf(ObtainedGroups) \cup JIDsOf(ObtainedContacts)) # {}
    /\ JIDsOf(ObtainedGroups) \cap JIDsOf(ObtainedContacts) # {}

\* len(chatMap): the size of the merged, search-filtered set before paging
PrePageCount == Cardinality(DOMAIN ChatMap)

Total == listResponse.Pagination.Total

\* C12: a listing reports as total the size of the merged, search-filtered
\* set before paging, for every limit and offset; with offset >= total the
\* page of the listing is empty and total is still that same count.
C12_TotalIsPrePageCount ==
    Listed => /\ Total = PrePageCount
              /\ (listRequest.Offset >= Total) => (listResponse.Data = <<>>)

\* an offset at or past the end of a non-empty filtered set
C12_Witness ==
    /\ Listed
    /\ PrePageCount >= 2
    /\ listRequest.Offset >= PrePageCount
    /\ listRequest.Search # <<>>
    /\ Total = PrePageCount

\* max(0, total - offset)
Remaining ==
    IF Total - listRequest.Offset > 0 THEN Total - listRequest.Offset ELSE 0

\* C13: the page holds exactly limit records when 0 < limit < remaining and
\* exactly remaining records when limit <= 0 or limit >= remaining, and every
\* record of the page is a record of the filtered merged set.
C13_PageSize ==
    Listed =>
        /\ (0 < listRequest.Limit /\ listRequest.Limit < Remaining)
              => Len(listResponse.Data) = listRequest.Limit
        /\ (listRequest.Limit <= 0 \/ listRequest.Limit >= Remaining)
              => Len(listResponse.Data) = Remaining
        /\ \A k \in 1..Len(listResponse.Data) :
              /\ listResponse.Data[k].JID \in DOMAIN ChatMap
              /\ listResponse.Data[k] = ChatMap[listResponse.Data[k].JID]

\* a page cut by the limit after a positive offset
C13_Witness ==
    /\ Listed
    /\ listRequest.Offset > 0
    /\ 0 < listRequest.Limit
    /\ listRequest.Limit < Remaining
    /\ Len(listResponse.Data) = listRequest.Limit

\* the merged records: one per JID of the three sources, the persisted one
\* first, as the loops build them when nothing is filtered
MergedRecords == MergedChats(<<>>, ObtainedStore, ObtainedGroups, ObtainedContacts)

\* the display name contains the search text, letter case ignored
NameMatches(record) == Contains(ToLower(record.Name), ToLower(listRequest.Search))

\* C14: the filtered set a listing counts is exactly the merged records whose
\* display name contains the search text case-insensitively; with an empty
\* search it is every merged record.
C14_FilteredSetIsTheMatchingMergedRecords ==
    Listed =>
        /\ \A jid \in DOMAIN ChatMap :
              /\ jid \in DOMAIN MergedRecords
              /\ ChatMap[jid] = MergedRecords[jid]
              /\ listRequest.Search # <<>> => NameMatches(ChatMap[jid])
        /\ \A jid \in DOMAIN MergedRecords :
              (listRequest.Search = <<>> \/ NameMatches(MergedRecords[jid]))
                  => jid \in DOMAIN ChatMap

(***************************************************************************)
(* Properties of normalizePhone (specification SpecPhone).                 *)
(***************************************************************************)
Normalized == IsStr(canonical)

StartsWithPlus == HasPrefix(rawPhone, Plus)

\* the digits of the input in order, every other character removed
DigitsOfInput == SelectSeq(rawPhone, IsDigit)

\* C15: an input that does not start with '+' and has exactly 10 digits is
\* normalized to "+1" followed by those digits, whatever the first digit.
C15_TenDigitsGetPlusOne ==
    (Normalized /\ ~StartsWithPlus /\ Len(DigitsOfInput) = 10)
        => canonical.str = <<"+", "1">> \o DigitsOfInput

\* C16: an input that starts with '+' is returned unchanged, whatever its
\* digit count and its other characters.
C16_PlusInputIsUnchanged ==
    (Normalized /\ StartsWithPlus) => canonical.str = rawPhone

\* C17: an input that does not start with '+' and has more or fewer than 10
\* digits is normalized to '+' followed by its digits in order.
C17_OtherCountsGetPlusAndDigits ==
    (Normalized /\ ~StartsWithPlus /\ Len(DigitsOfInput) # 10)
        => canonical.str = Plus \o DigitsOfInput

\* more than 10 digits written with other characters, no leading '+'
C17_Witness ==
    /\ Normalized
    /\ ~StartsWithPlus
    /\ Len(DigitsOfInput) > 10
    /\ Len(rawPhone) > Len(DigitsOfInput) + 1
    /\ canonical.str = Plus \o DigitsOfInput

(***************************************************************************)
(* Properties of one iteration of the recipients loop (specification Spec).*)
(***************************************************************************)
InLoop == pc = "loop" /\ IsSend

\* the calls the iteration made, and the outcome it recorded
NewCalls == SubSeq(calls', Len(calls) + 1, Len(calls'))

Recorded == Len(results') = Len(results) + 1

NewResult == results'[Len(results')]

CallsOnly(services) == \A k \in 1..Len(NewCalls) : NewCalls[k].svc \in services

CallsNone(services) == \A k \in 1..Len(NewCalls) : NewCalls[k].svc \notin services

\* the loop goes on to the next recipient, or ends the batch after the last
MovesOn ==
    IF idx < Len(Supplied) THEN pc' = "loop" /\ idx' = idx + 1 ELSE pc' = "done"

\* C18: a 'name:<text>' recipient that no group matches (or whose directory
\* lookup fails) is recorded as resolution_failed and counted as failed, with
\* no registration check and no send call, and the loop moves on.
C18_UnresolvedNameIsResolutionFailed ==
    [][(InLoop /\ IsNameRef(Supplied[idx]) /\ Recorded /\ NewResult.resolved_to = NilStr)
          => /\ NewResult.status = "resolution_failed"
             /\ failed' = failed + 1
             /\ CallsOnly({"MyListGroups"})
             /\ MovesOn]_vars

\* the registration check of the iteration was made and failed
CheckMade == \E k \in 1..Len(NewCalls) : NewCalls[k].svc = "IsOnWhatsApp"

CheckFailed == CheckMade /\ (check'.err # NilStr \/ ~check'.IsOnWhatsApp)

RecordedAsFailed(label) ==
    /\ Recorded
    /\ NewResult.to = Supplied[idx]
    /\ NewResult.status = label
    /\ failed' = failed + 1
    /\ sent' = sent
    /\ CallsNone(SendServices)
    /\ MovesOn

Statuses == {"success", "partial", "error"}

\* C20: every envelope has a status among success, partial and error; it
\* carries an error object {code, message, detail} exactly when the status is
\* error, and a data object exactly when the status is success or partial.
C20_EnvelopeCarriesDataOrError ==
    pc = "done"
        => /\ Envelope.Status \in Statuses
           /\ Envelope.Error # Absent <=> Envelope.Status = "error"
           /\ Envelope.Error # Absent
                 => DOMAIN Envelope.Error = {"Code", "Message", "Detail"}
           /\ Envelope.Data # Absent <=> Envelope.Status \in {"success", "partial"}

\* C21: every envelope, whatever its status, carries the rate-limit info
\* {remaining, reset}.
C21_EnvelopeCarriesRateLimit ==
    pc = "done"
        => /\ Envelope.RateLimit # Absent
           /\ DOMAIN Envelope.RateLimit = {"Remaining", "Reset"}

\* the invocation received is being handled: its handler can take its step
Handled == pc = "received" => ENABLED Next

\* C22: over any sequence of invocations the remaining counter never grows,
\* neither in the state nor in what the envelopes report, the reset time set
\* at construction never changes, and every invocation is handled whatever
\* the counter is.
C22_RateLimitIsInformational ==
    [][/\ rateLimitRemaining' <= rateLimitRemaining
       /\ rateLimitReset' = rateLimitReset
       /\ rateLimitReset' = ResetTime
       /\ (pc' = "done" /\ Envelope'.RateLimit # Absent)
             => /\ Envelope'.RateLimit.Remaining = rateLimitRemaining'
                /\ Envelope'.RateLimit.Remaining <= RateLimitStart
                /\ Envelope'.RateLimit.Reset = ResetTime
       /\ Handled']_vars

\* a second invocation answered with the rate-limit info
C22_Witness ==
    /\ pc = "done"
    /\ inv = 2
    /\ Envelope.RateLimit # Absent
    /\ Envelope.RateLimit.Remaining = RateLimitStart
    /\ Envelope.RateLimit.Reset = ResetTime

(***************************************************************************)
(* Properties of concurrent invocations (specification SpecConcurrent).    *)
(***************************************************************************)
InCacheAccess(w) == workers[w].at \in {"lookup", "store"}

InCounterAccess(w) == workers[w].at = "respond"

\* the invocation found no entry for its key and has not finished its batch
BetweenCheckAndStore(w) ==
    workers[w].key # <<>> /\ ~workers[w].cached /\ workers[w].at \in {"send", "store"}

\* C23: no two concurrent invocations are inside an access to the cache at
\* once, nor inside an access to the counters at once, and no invocation
\* checks a key while another is between its check and its store of that key.
C23_SharedStateIsMutuallyExclusive ==
    \A v, w \in DOMAIN workers :
        v # w => /\ ~(InCacheAccess(v) /\ InCacheAccess(w))
                 /\ ~(InCounterAccess(v) /\ InCounterAccess(w))
                 /\ ~(/\ workers[v].key = workers[w].key
                      /\ BetweenCheckAndStore(v)
                      /\ BetweenCheckAndStore(w))

(***************************************************************************)
(* Properties of the idempotency cache (specification Spec).               *)
(***************************************************************************)
\* C24: the response synthesized from the cache for a repeated whatsapp_send
\* reports the aggregate status of the invocation that populated the cache,
\* and it lists the one entry the cache holds for the key.
C24_RepeatReportsTheOriginalStatus ==
    (repeat /\ IsCacheDerived)
        => /\ Envelope.Status = prevStatus
           /\ Outcomes = <<idempotencyCache[req.args.idempotency_key.str]>>

(***************************************************************************)
(* Properties of error handling in the batch (specification Spec).         *)
(***************************************************************************)
\* C25: when a collaborator call returns an error, the response carries the
\* message of that error unchanged; here for the registration check, whose
\* error belongs in the error field of the outcome of the recipient checked.
C25_CollaboratorErrorIsKeptVerbatim ==
    (IsSend /\ pc \in {"loop", "done"} /\ Len(results) >= 1 /\ check.err # NilStr)
        => results[Len(results)].error = check.err

\* the kind is not a supported one, or the parameter its kind needs is missing
FailsKindValidation(a) ==
    IsStr(a.kind) /\ (SendServiceOf(KindOf(a)) = "none" \/ SendSwitchPanics(a))

\* C26: a whatsapp_send invocation whose kind is unsupported or whose
\* kind-specific parameter is missing calls no collaborator at all.
C26_InvalidKindCallsNothing ==
    (IsSend /\ FailsKindValidation(req.args)) => calls = <<>>

\* C27: once a whatsapp_send batch that carried a non-empty idempotency_key
\* and was not answered from the cache has completed, the cache holds an
\* entry for that key, whatever the outcomes of its recipients.
C27_CompletedBatchIsCached ==
    (IsBatchResponse /\ HasIdempKey(req.args))
        => req.args.idempotency_key.str \in DOMAIN idempotencyCache

(***************************************************************************)
(* Properties of name resolution (specification Spec).                     *)
(***************************************************************************)
LastResult == results[Len(results)]

\* the last iteration was on a 'name:' recipient and its directory came back
ResolvedByName ==
    /\ IsSend
    /\ pc \in {"loop", "done"}
    /\ Len(results) >= 1
    /\ IsNameRef(LastResult.to)
    /\ listed.err = NilStr

SearchedText == TrimPrefix(LastResult.to, NamePrefix)

NameContainsText(group) == Contains(ToLower(group.Name), ToLower(SearchedText))

\* C28: a 'name:<text>' recipient is resolved to the first group, in the
\* order the directory lists them, whose name contains <text> whatever the
\* letter case; no later group is chosen, not even one named exactly <text>.
C28_FirstMatchingGroupIsChosen ==
    ResolvedByName =>
        \A k \in 1..Len(listed.Data) :
            (NameContainsText(listed.Data[k])
                /\ \A m \in 1..(k - 1) : ~NameContainsText(listed.Data[m]))
              => /\ LastResult.resolved_to = listed.Data[k].JID
                 /\ LastResult.group_name = listed.Data[k].Name

\* the first group matches as a substring, the second is named exactly <text>
C28_Witness ==
    /\ ResolvedByName
    /\ Len(listed.Data) = 2
    /\ listed.Data[1].Name # SearchedText
    /\ NameContainsText(listed.Data[1])
    /\ listed.Data[2].Name = SearchedText
    /\ LastResult.resolved_to = listed.Data[1].JID

\* C29: the cache has no eviction: over any sequence of invocations every key
\* it holds stays in it.
C29_CacheKeysOnlyGrow ==
    [][DOMAIN idempotencyCache \subseteq DOMAIN idempotencyCache']_vars

\* an entry stored by the first invocation is still held after the second
C29_Witness ==
    /\ pc = "done"
    /\ inv = 2
    /\ ~repeat
    /\ req.tool # "whatsapp_send"
    /\ DOMAIN idempotencyCache # {}

(***************************************************************************)
(* Properties of the send step (specification Spec).                       *)
(***************************************************************************)
\* the iteration went past the registration check to the send step
ReachesSendStep == InLoop /\ (pc' # pc \/ idx' # idx) /\ ~CheckFailed

SendCallsMade == {k \in 1..Len(NewCalls) : NewCalls[k].svc \in SendServices}

\* C30: for a recipient that reaches the send step exactly one send call is
\* made; its outcome is sent if and only if that call returned no error, and
\* otherwise failed with the error message of the call unchanged.
C30_OutcomeFollowsTheSendCall ==
    [][ReachesSendStep
          => /\ Cardinality(SendCallsMade) = 1
             /\ Recorded
             /\ NewResult.status = "sent" <=> sendErr' = NilStr
             /\ sendErr' # NilStr
                   => (NewResult.status = "failed" /\ NewResult.error = sendErr')]_vars

(***************************************************************************)
(* Properties of the registration check (specification Spec).              *)
(***************************************************************************)
\* check_and_format as the caller gave it: true, or absent (the default)
FlagIsTrue == req.args.check_and_format \in {Absent, B(TRUE)}

\* the recipient of the iteration after group resolution
TargetNow == ResolvedTarget(Supplied[idx], listed')

IterationRuns == InLoop /\ (pc' # pc \/ idx' # idx)

SentTo(tgt) == \E k \in 1..Len(calls) : calls[k].svc \in SendServices /\ calls[k].arg = tgt

\* C31: the registration check is called for a recipient if and only if
\* check_and_format is true (the default when absent) and the target after
\* group resolution contains no '@'; otherwise the target goes to the send
\* collaborator unmodified and nothing is normalized or checked.
C31_CheckIffFlagAndNoAt ==
    [][IterationRuns
          => /\ CheckMade <=> (FlagIsTrue /\ ~Contains(TargetNow, At))
             /\ Len(SelectSeq(NewCalls, LAMBDA c : c.svc = "IsOnWhatsApp")) <= 1
             /\ ~CheckMade
                  => /\ \A k \in SendCallsMade : NewCalls[k].arg = TargetNow
                     /\ Recorded => NewResult.normalized = NilStr]_vars

\* with the flag switched off a phone number was sent to as it was given,
\* and no check was made
C31_Witness ==
    /\ IsSend
    /\ req.args.check_and_format = B(FALSE)
    /\ SentTo(RPhone)
    /\ \A k \in 1..Len(calls) : calls[k].svc # "IsOnWhatsApp"

(***************************************************************************)
(* Properties of handleChats (specification Spec).                         *)
(***************************************************************************)
StubActions == {Txt("delete"), Txt("mute"), Txt("unmute")}

NotImplementedTexts ==
    {"Delete not implemented in current API", "Mute not implemented in current API"}

\* a whatsapp_chats request with one of the stub actions is about to be handled
StubRequested ==
    /\ pc = "received"
    /\ req.tool = "whatsapp_chats"
    /\ IsStr(req.args.action)
    /\ req.args.action.str \in StubActions

\* the handler answered with a success envelope that says not implemented
AnsweredNotImplemented ==
    /\ pc' = "done"
    /\ Envelope'.Status = "success"
    /\ Envelope'.Error = Absent
    /\ Envelope'.Data.message \in NotImplementedTexts

\* C32: the stub actions delete, mute and unmute of whatsapp_chats call no
\* collaborator and change no state, and they answer with a not-implemented
\* message in an envelope whose status is success.
C32_StubsAnswerNotImplemented ==
    [][StubRequested
          => /\ calls' = <<>>
             /\ UNCHANGED handlerState
             /\ AnsweredNotImplemented]_vars

\* the same for the requests that carry a chat_id string
C32_StubsWithChatId ==
    [][(StubRequested /\ IsStr(req.args.chat_id))
          => /\ calls' = <<>>
             /\ UNCHANGED handlerState
             /\ AnsweredNotImplemented]_vars

(***************************************************************************)
(* Concurrent sends under one key (specification SpecConcurrent).          *)
(***************************************************************************)
\* the invocation missed the cache and its send call has just succeeded
SentUncached(w) == workers[w].at = "store" /\ ~workers[w].cached

\* C33: of two whatsapp_send invocations that carry the same idempotency_key
\* and run concurrently, at most one calls the send collaborator; the other
\* is answered from the cache.
C33_OneSenderPerKey ==
    \A v, w \in DOMAIN workers :
        (v # w /\ workers[v].key # <<>> /\ workers[v].key = workers[w].key)
            => ~(SentUncached(v) /\ SentUncached(w))

(***************************************************************************)
(* normalizePhone applied twice (specification SpecPhone).                 *)
(***************************************************************************)
\* C34: for every input, normalizePhone returns a string that starts with
\* '+', and applying it to that string returns the same string.
C34_NormalizeIsIdempotentWithPlus ==
    /\ Normalized => HasPrefix(canonical.str, Plus)
    /\ IsStr(renormalized) => renormalized.str = canonical.str

\* ten digits starting with 3 and no '+': the first application puts "+1" in
\* front, the second leaves the result as it is
C34_Witness ==
    /\ IsStr(renormalized)
    /\ ~StartsWithPlus
    /\ Len(DigitsOfInput) = 10
    /\ canonical.str = <<"+", "1">> \o DigitsOfInput
    /\ renormalized.str = canonical.str

(***************************************************************************)
(* Two ListChats calls in a row (specification SpecChats).                 *)
(***************************************************************************)
Relisted == nextResponse.kind = "ok"

SamePageAsked == nextRequest.Offset = listRequest.Offset

NextPageAsked ==
    listRequest.Limit > 0 /\ nextRequest.Offset = listRequest.Offset + listRequest.Limit

\* the same request is answered with the same page
SamePageTwice == (Relisted /\ SamePageAsked) => nextResponse.Data = listResponse.Data

\* a page and the page after it hold no record in common
PagesDisjoint ==
    (Relisted /\ NextPageAsked)
        => JIDsOf(listResponse.Data) \cap JIDsOf(nextResponse.Data) = {}

\* the first two pages hold every record when the set has no more than two pages
PagesCover ==
    (Relisted /\ NextPageAsked /\ listRequest.Offset = 0
        /\ Total <= 2 * listRequest.Limit)
        => JIDsOf(listResponse.Data) \cup JIDsOf(nextResponse.Data) = DOMAIN ChatMap

\* C35: for unchanged sources and filter, two calls with the same limit and
\* offset return the same page, and the pages at offsets 0, limit, 2*limit,
\* ... are pairwise disjoint and together hold every record of the filtered
\* merged set exactly once.
C35_PagingIsDeterministic == SamePageTwice /\ PagesDisjoint /\ PagesCover

(***************************************************************************)
(* Archive and pin in handleChats (specification Spec).                    *)
(***************************************************************************)
ChatsAnswered ==
    pc = "done" /\ req.tool = "whatsapp_chats" /\ IsStr(req.args.action)

ChatsAction == req.args.action.str

CallsTo(svc) == SelectSeq(calls, LAMBDA c : c.svc = svc)

\* C36: the actions archive and unarchive of whatsapp_chats change the
\* archived state of the chat through the archive capability and leave its
\* pinned state alone; the pin capability is called only by pin and unpin.
C36_ArchiveLeavesPinAlone ==
    ChatsAnswered
        => /\ CallsTo("PinChat") # <<>> => ChatsAction \in {Txt("pin"), Txt("unpin")}
           /\ ChatsAction \in {Txt("archive"), Txt("unarchive")}
                => /\ Len(CallsTo("ArchiveChat")) = 1
                   /\ CallsTo("ArchiveChat")[1].arg.ChatJID = req.args.chat_id.str

(***************************************************************************)
(* ListChats with failing sources (specification SpecChats).               *)
(***************************************************************************)
SomeSourceFailed == listFaults.store \/ listFaults.groups \/ listFaults.contacts

\* the JIDs the sources that did not fail can contribute
RemainingJIDs ==
    (IF listFaults.store THEN {} ELSE JIDsOf(chatStore))
        \cup (IF listFaults.groups THEN {} ELSE JIDsOf(groupDir))
        \cup (IF listFaults.contacts THEN {}
              ELSE {j \in JIDsOf(contactDir) : ~Contains(j, GroupServer)})

\* C37: once validation has passed, a failing store, group directory or
\* contact directory does not make ListChats return an error: the failing
\* source counts as empty, and the listing and its total are made of the
\* records of the remaining sources only.
C37_FailedSourceCountsAsEmpty ==
    (listResponse.kind # "none" /\ SomeSourceFailed)
        => /\ Listed
           /\ JIDsOf(listResponse.Data) \subseteq RemainingJIDs
           /\ Total <= Cardinality(RemainingJIDs)
           /\ listRequest.Search = <<>> => Total = Cardinality(RemainingJIDs)

\* the store failed while holding a chat that no other source has, and the
\* listing was built from the contacts
C37_Witness ==
    /\ Listed
    /\ listFaults.store
    /\ ~listFaults.contacts
    /\ JIDsOf(chatStore) \ (JIDsOf(groupDir) \cup JIDsOf(contactDir)) # {}
    /\ Total >= 1
    /\ Total = Cardinality(RemainingJIDs)

(***************************************************************************)
(* mark_read in handleMessages (specification Spec).                       *)
(***************************************************************************)
MarkReadRequested ==
    /\ req.tool = "whatsapp_messages"
    /\ IsStr(req.args.action)
    /\ req.args.action.str = Txt("mark_read")

====
